---- MODULE Spec2Model ----
(***************************************************************************)
(* A model of PkClient (pk-client.c): one client object, the daemon that   *)
(* allocates transaction ids and emits the events of a transaction, the    *)
(* PolicyKit broker, the caller that invokes the public methods, and a     *)
(* second client object of the same process.                               *)
(*                                                                         *)
(* Strings stand for C strings ("NULL" is the NULL pointer), sequences for *)
(* NULL-terminated string vectors (<<>> is the NULL vector).               *)
(***************************************************************************)
EXTENDS Integers, Sequences, FiniteSets, TLC

\* ------------------------------------------------------------------ bounds
\* transaction ids the daemon hands out before it refuses to allocate
MaxTid == 2
\* Package / RequireRestart / StatusChanged events one transaction emits
MaxEvents == 2
\* public calls the caller makes
MaxCalls == 3

\* ------------------------------------------------------- values of the API
NULL == "NULL"
NULLV == << >>

PK_ROLE_ENUM_UNKNOWN == "unknown"
PK_STATUS_ENUM_UNKNOWN == "unknown"
PK_STATUS_ENUM_WAIT == "wait"
PK_STATUS_ENUM_RUNNING == "PK_STATUS_ENUM_RUNNING"
PK_INFO_ENUM_UNKNOWN == "PK_INFO_ENUM_UNKNOWN"
PK_INFO_ENUM_INSTALLED == "PK_INFO_ENUM_INSTALLED"
PK_INFO_ENUM_AVAILABLE == "PK_INFO_ENUM_AVAILABLE"
PK_EXIT_ENUM_UNKNOWN == "PK_EXIT_ENUM_UNKNOWN"
PK_EXIT_ENUM_SUCCESS == "PK_EXIT_ENUM_SUCCESS"
PK_EXIT_ENUM_CANCELLED == "PK_EXIT_ENUM_CANCELLED"
PK_FILTER_ENUM_UNKNOWN == "unknown"
PK_PROVIDES_ENUM_UNKNOWN == "unknown"
PK_SIGTYPE_ENUM_GPG == "gpg"
PK_RESTART_ENUM_NONE == 0

\* the PkClientError codes
PK_CLIENT_ERROR_FAILED == "Failed"
PK_CLIENT_ERROR_FAILED_AUTH == "FailedAuth"
PK_CLIENT_ERROR_NO_TID == "NoTid"
PK_CLIENT_ERROR_ALREADY_TID == "AlreadyTid"
PK_CLIENT_ERROR_ROLE_UNKNOWN == "RoleUnkown"
PK_CLIENT_ERROR_INVALID_PACKAGEID == "InvalidPackageId"
DBUS_GERROR_REMOTE_EXCEPTION == "RemoteException"

\* inputs the caller chooses from
Filters == {"PK_FILTER_ENUM_INSTALLED"}
Searches == {"power"}
PackageIds == {"gpm;0.0.1;i386;fedora", "foo;1.0;x86_64"}
PackageIdLists == {<<"gpm;0.0.1;i386;fedora">>,
                   <<"gpm;0.0.1;i386;fedora", "foo;1.0;x86_64">>}
PackageNames == {"gnome-system-tools"}
OldTids == {"/1_old"}
KeyIds == {"key1"}
FileLists == {<<"../a.rpm">>}
EulaIds == {"eula1"}
RepoIds == {"livna"}
Provides == {"PK_PROVIDES_ENUM_CODEC"}
Numbers == {5}
Flags == {TRUE}

\* what the environment answers
FirstDenial == "org.freedesktop.packagekit.install no"
SecondDenial == "org.freedesktop.packagekit.install auth_admin"
RemoteMessage == "backend failure"
CancelNotRunning == "cancelling a non-running transaction"
CancelNoExist == "tid doesn't exist\n"
CancelRefused == "cancel not allowed"
PackageEvents == {<<"installed", "gpm;0.0.1;i386;fedora", "power manager">>,
                  <<"available", "hal;0.5;i386;fedora", "hardware layer">>}
RestartTexts == {"session", "system"}
StatusEvents == {"running"}
UpdateDetailEvents == {"gpm;0.0.1;i386;fedora"}

\* the signals pk_client_set_tid connects a handler to
SetTidSignals ==
    {"Finished", "ProgressChanged", "StatusChanged", "Package", "Transaction",
     "UpdateDetail", "Details", "Files", "RepoSignatureRequired",
     "EulaRequired", "RepoDetail", "ErrorCode", "RequireRestart", "Message",
     "CallerActiveChanged", "AllowCancel"}

\* the signals pk_client_disconnect_proxy takes the handler off
DisconnectSignals ==
    {"Finished", "ProgressChanged", "StatusChanged", "Package", "Transaction",
     "Details", "Files", "RepoSignatureRequired", "EulaRequired", "ErrorCode",
     "RequireRestart", "Message", "CallerActiveChanged", "AllowCancel"}

\* ------------------------------------------------------------------ errors
NoError == [domain |-> "none", code |-> "none", name |-> "none", msg |-> "none"]

\* g_set_error (error, PK_CLIENT_ERROR, code, "%s", buffer), the caller having
\* supplied an error slot
pk_client_error_set(code, msg) ==
    [domain |-> "PK_CLIENT_ERROR", code |-> code, name |-> "none", msg |-> msg]

\* the GError dbus-glib returns for a remote exception of the given D-Bus name
RemoteError(name, msg) ==
    [domain |-> "DBUS_GERROR", code |-> DBUS_GERROR_REMOTE_EXCEPTION,
     name |-> name, msg |-> msg]

\* a remote exception gets the local code PK_CLIENT_ERROR_FAILED; the domain
\* and the message stay
pk_client_error_fixup(err) ==
    IF err # NoError /\ err.domain = "DBUS_GERROR"
                     /\ err.code = DBUS_GERROR_REMOTE_EXCEPTION
    THEN [err EXCEPT !.code = PK_CLIENT_ERROR_FAILED]
    ELSE err

\* pk-polkit-client: is this the daemon's RefusedByPolicy exception?
pk_polkit_client_error_denied_by_policy(err) ==
    err # NoError /\ err.name = "RefusedByPolicy"

\* pk-package-id: the number of ';'-separated sections of an id
pk_package_id_sections(id) ==
    CASE id = "gpm;0.0.1;i386;fedora" -> 4
      [] id = "hal;0.5;i386;fedora" -> 4
      [] id = "foo;1.0;x86_64" -> 3
      [] OTHER -> 1

pk_package_id_check(id) == id # NULL /\ pk_package_id_sections(id) = 4

pk_package_ids_check(ids) ==
    /\ Len(ids) > 0
    /\ \A i \in 1..Len(ids) : pk_package_id_check(ids[i])

\* pk-enum: the text of a filter set and of a provides kind on the bus
pk_filter_enums_to_text(filters) ==
    CASE filters = "PK_FILTER_ENUM_INSTALLED" -> "installed"
      [] filters = PK_FILTER_ENUM_UNKNOWN -> "unknown"
      [] OTHER -> "none"

pk_provides_enum_to_text(provides) ==
    CASE provides = "PK_PROVIDES_ENUM_CODEC" -> "codec"
      [] OTHER -> "unknown"

pk_sig_type_enum_to_text(type) ==
    IF type = PK_SIGTYPE_ENUM_GPG THEN "gpg" ELSE "unknown"

\* pk-enum: the enum of a text the daemon sends; a text that is not known
\* becomes the unknown value
pk_info_enum_from_text(text) ==
    CASE text = "installed" -> PK_INFO_ENUM_INSTALLED
      [] text = "available" -> PK_INFO_ENUM_AVAILABLE
      [] OTHER -> PK_INFO_ENUM_UNKNOWN

pk_status_enum_from_text(text) ==
    CASE text = "wait" -> PK_STATUS_ENUM_WAIT
      [] text = "running" -> PK_STATUS_ENUM_RUNNING
      [] OTHER -> PK_STATUS_ENUM_UNKNOWN

pk_restart_enum_from_text(text) ==
    CASE text = "none" -> PK_RESTART_ENUM_NONE
      [] text = "application" -> 1
      [] text = "session" -> 2
      [] text = "system" -> 3
      [] OTHER -> 4

pk_exit_enum_from_text(text) ==
    CASE text = "success" -> PK_EXIT_ENUM_SUCCESS
      [] text = "cancelled" -> PK_EXIT_ENUM_CANCELLED
      [] OTHER -> PK_EXIT_ENUM_UNKNOWN

\* ------------------------------------------------------------------- state
VARIABLES
    c,       \* the PkClientPrivate of the client
    daemon,  \* next: the next tid; txn: the state of every transaction;
             \* sent: the events of the newest transaction; lost: the last
             \* signal that found no handler
    conn,    \* <<tid, signal>>: a handler of this client hangs on the
             \* signal of the proxy of the tid
    pc,      \* "idle": the caller is in its main loop; "loop": inside
             \* g_main_loop_run of a synchronous action call; "done": a
             \* public call has just returned to the caller; "unwinding":
             \* the client was finalized inside that g_main_loop_run;
             \* "gone": the client is finalized; "crashed": the process
             \* stopped in a public call
    orig,    \* the role method call of the last direct action call
    ncalls,  \* the public calls made so far
    last,    \* what the last public call did: its bus calls and its result
    hist,    \* what a monitor of the client has seen, when one is attached
             \* (on): notes: what the observers of the client were told,
             \* inbound: the signals the bus handed to its handlers, both
             \* since the client was last cleared for a transaction;
             \* restarts: the RequireRestart texts received since
             \* pk_client_init; got: what pk_client_get_package_list last
             \* returned to the caller
    peer     \* a second PkClient of the same process, when there is one
             \* (on): cl: its PkClientPrivate; conn: its handlers; notes:
             \* what its observers were told; emitted: the signals its
             \* transaction emitted since it has its tid; inloop: how many
             \* of its notes came while the first client was blocked

vars == <<c, daemon, conn, pc, orig, ncalls, last, hist, peer>>

Tids == 1..MaxTid

NoCall == [m |-> "none", a |-> << >>]
NoEnv == [alloc |-> "na", out1 |-> "na", grant |-> FALSE, out2 |-> "na"]

\* pk_client_init
InitClient ==
    [tid |-> 0, proxy |-> 0, loop_running |-> FALSE,
     is_finished |-> FALSE, use_buffer |-> FALSE, synchronous |-> FALSE,
     package_list |-> << >>,
     require_restart |-> PK_RESTART_ENUM_NONE,
     last_status |-> PK_STATUS_ENUM_UNKNOWN,
     role |-> PK_ROLE_ENUM_UNKNOWN,
     cached_force |-> FALSE, cached_allow_deps |-> FALSE,
     cached_autoremove |-> FALSE, cached_trusted |-> FALSE,
     cached_package_id |-> NULL, cached_package_ids |-> NULLV,
     cached_transaction_id |-> NULL, cached_key_id |-> NULL,
     cached_full_path |-> NULL, cached_full_paths |-> NULLV,
     cached_search |-> NULL,
     cached_provides |-> PK_PROVIDES_ENUM_UNKNOWN,
     cached_filters |-> PK_FILTER_ENUM_UNKNOWN]

NoLast ==
    [op |-> "none", kind |-> "none", valid |-> TRUE, ret |-> TRUE,
     err |-> NoError,
     calls |-> << >>, env |-> NoEnv, pre |-> InitClient, preOrig |-> NoCall,
     returned |-> TRUE, fin |-> FALSE]

\* what pk_client_get_package_list returns: the pointer, and the items
\* that were in the list it points to when it returned
NoList == [list |-> NULL, items |-> << >>]

\* how the client was finalised from inside its Finished handler: at is
\* where the last reference went ("emit": in an observer, "end": at the
\* unref that closes the handler), flag and told say whether the finished
\* flag was set and the observers told by then, uaf whether the handler
\* used the client after that
NoTorn == [at |-> "none", flag |-> FALSE, told |-> FALSE, uaf |-> FALSE]

\* the public call an observer made from inside ::finished: what it
\* returned, the bus calls it made and the finished flag it found
NoInner == [op |-> "none", ret |-> TRUE, calls |-> << >>, fin |-> FALSE]

NoHist ==
    [on |-> FALSE, notes |-> << >>, inbound |-> << >>, restarts |-> {},
     got |-> NoList, torn |-> NoTorn, inner |-> NoInner]

NoPeer ==
    [on |-> FALSE, cl |-> InitClient, conn |-> {}, notes |-> << >>,
     emitted |-> << >>, inloop |-> 0]

Init ==
    /\ c = InitClient
    /\ daemon = [next |-> 1, txn |-> [t \in Tids |-> "none"], sent |-> 0,
                 lost |-> "none"]
    /\ conn = {}
    /\ hist = NoHist
    /\ peer = NoPeer
    /\ pc = "idle"
    /\ orig = NoCall
    /\ ncalls = 0
    /\ last = NoLast

\* record r with the fields of upd overriding
Merge(r, upd) ==
    [f \in DOMAIN r |-> IF f \in DOMAIN upd THEN upd[f] ELSE r[f]]

BusCall(method, tid, args) == [m |-> method, t |-> tid, a |-> args]


\* the role method calls among the bus calls of a public call
RoleCalls(calls) ==
    SelectSeq(calls, LAMBDA x : x.m \notin {"GetTid", "Cancel", "GainPrivilege"})

BrokerCalls(calls) == SelectSeq(calls, LAMBDA x : x.m = "GainPrivilege")

\* ------------------------------------------------------------ the daemon
\* pk_control_allocate_transaction_id answers with the next tid
DaemonAllocate(d) ==
    [d EXCEPT !.next = d.next + 1]

\* a role method the daemon accepted starts the transaction
DaemonStart(d, tid) == [d EXCEPT !.txn[tid] = "running", !.sent = 0]

\* a Cancel the daemon accepted: the transaction is asked to stop and goes on
\* until it says Finished
DaemonCancel(d, tid, out) ==
    IF out = "ok" /\ tid \in Tids /\ d.txn[tid] = "running"
    THEN [d EXCEPT !.txn[tid] = "cancelling"]
    ELSE d

\* the handlers pk_client_set_tid hangs on the proxy of a tid
Handlers(tid) == {<<tid, sig>> : sig \in SetTidSignals}

\* a pk_client_set_tid that makes the proxy and connects the handlers before
\* it looks at the tid the client has
pk_client_set_tid_checks_late(cl, tid) ==
    IF cl.tid # 0
    THEN [ret |-> FALSE,
          err |-> [domain |-> "PK_CLIENT_ERROR", code |-> "AlreadyTid",
                   name |-> "none",
                   msg |-> "cannot set the tid on an already set client"],
          cl |-> cl, bound |-> TRUE]
    ELSE [ret |-> TRUE,
          err |-> [domain |-> "none", code |-> "none", name |-> "none",
                   msg |-> "none"],
          cl |-> [cl EXCEPT !.tid = tid, !.proxy = tid], bound |-> TRUE]

\* a pk_client_set_tid that lost its "already set" test and binds again
pk_client_set_tid_rebind(cl, tid) ==
    [ret |-> TRUE, err |-> NoError,
     cl |-> [cl EXCEPT !.tid = tid, !.proxy = tid], bound |-> TRUE]

\* ------------------------------------------------- binding a transaction
\* pk_client_set_tid: refuse a second tid, else make the proxy of the tid,
\* connect the sixteen signal handlers and keep tid and proxy
pk_client_set_tid(cl, tid) ==
    IF cl.tid # 0
    THEN [ret |-> FALSE,
          err |-> pk_client_error_set(PK_CLIENT_ERROR_ALREADY_TID,
                                      "cannot set the tid on an already set client"),
          cl |-> cl, bound |-> FALSE]
    ELSE [ret |-> TRUE, err |-> NoError,
          cl |-> [cl EXCEPT !.tid = tid, !.proxy = tid], bound |-> TRUE]

\* the error pk_control_allocate_transaction_id leaves when the daemon does
\* not hand out a tid
AllocateError ==
    pk_client_error_set(PK_CLIENT_ERROR_NO_TID, "failed to get a TID")

\* pk_client_allocate_transaction_id: ask the daemon for a tid (alloc is its
\* answer), then pk_client_set_tid
pk_client_allocate_transaction_id(cl, d, alloc) ==
    IF alloc # "ok"
    THEN [ret |-> FALSE, err |-> AllocateError, cl |-> cl, d |-> d,
          bound |-> FALSE, calls |-> <<BusCall("GetTid", 0, << >>)>>]
    ELSE LET r == pk_client_set_tid(cl, d.next)
         IN  [ret |-> r.ret, err |-> r.err, cl |-> r.cl,
              d |-> DaemonAllocate(d), bound |-> r.bound,
              calls |-> <<BusCall("GetTid", 0, << >>)>>]

\* ------------------------------------------------------------- dispatch
\* the GError of a role method call the daemon answered with `out`
OutError(out) ==
    CASE out = "denied" -> RemoteError("RefusedByPolicy", FirstDenial)
      [] out = "denied_again" -> RemoteError("RefusedByPolicy", SecondDenial)
      [] out = "fail" -> RemoteError("Other", RemoteMessage)
      [] OTHER -> NoError

\* dbus_g_proxy_call of the role method, then pk_client_error_fixup: the
\* action methods that do not go through PolicyKit
DispatchSimple(call, env) ==
    [ret |-> env.out1 = "ok",
     err |-> pk_client_error_fixup(OutError(env.out1)),
     calls |-> <<call>>]

\* a retry that goes back to the broker when the second dispatch is denied
\* as well
RetryCalls_until_allowed(call, env) ==
    LET e1 == OutError(env.out1)
        denied == env.out1 # "ok" /\ pk_polkit_client_error_denied_by_policy(e1)
        ask == BusCall("GainPrivilege", 0, <<e1.msg>>)
    IN  IF denied /\ env.grant /\ env.out2 = "denied_again"
        THEN [ret |-> FALSE, error_pk |-> OutError(env.out2),
              denied |-> TRUE, calls |-> <<call, ask, call, ask, call>>]
        ELSE IF denied /\ env.grant
        THEN [ret |-> env.out2 = "ok", error_pk |-> OutError(env.out2),
              denied |-> TRUE, calls |-> <<call, ask, call>>]
        ELSE IF denied
        THEN [ret |-> FALSE, error_pk |-> e1, denied |-> TRUE,
              calls |-> <<call, ask>>]
        ELSE [ret |-> env.out1 = "ok", error_pk |-> e1, denied |-> FALSE,
              calls |-> <<call>>]

\* the calls of "hopefully do the operation first time ... retry the action
\* now we have got auth", and the error_pk and ret they leave
RetryCalls(call, env) ==
    LET e1 == OutError(env.out1)
        denied == env.out1 # "ok" /\ pk_polkit_client_error_denied_by_policy(e1)
        ask == BusCall("GainPrivilege", 0, <<e1.msg>>)
    IN  IF denied /\ env.grant
        THEN [ret |-> env.out2 = "ok", error_pk |-> OutError(env.out2),
              denied |-> TRUE, calls |-> <<call, ask, call>>]
        ELSE IF denied
        THEN [ret |-> FALSE, error_pk |-> e1, denied |-> TRUE,
              calls |-> <<call, ask>>]
        ELSE [ret |-> env.out1 = "ok", error_pk |-> e1, denied |-> FALSE,
              calls |-> <<call>>]

\* install/remove/update-packages, refresh-cache, install-files,
\* install-signature, accept-eula, repo-enable, repo-set-data: whatever
\* error_pk is left is fixed up and propagated
DispatchRetry(call, env) ==
    LET r == RetryCalls(call, env)
    IN  [ret |-> r.ret,
         err |-> IF r.ret THEN NoError ELSE pk_client_error_fixup(r.error_pk),
         calls |-> r.calls]

\* pk_client_update_system: a denial that is still there after the broker
\* was asked becomes PK_CLIENT_ERROR_FAILED_AUTH; any other error is
\* propagated as it is
DispatchUpdateSystem(call, env) ==
    LET r == RetryCalls(call, env)
    IN  IF r.denied /\ pk_polkit_client_error_denied_by_policy(r.error_pk)
        THEN [ret |-> FALSE,
              err |-> pk_client_error_set(PK_CLIENT_ERROR_FAILED_AUTH,
                                          r.error_pk.msg),
              calls |-> r.calls]
        ELSE [ret |-> r.ret,
              err |-> IF r.ret THEN NoError ELSE r.error_pk,
              calls |-> r.calls]

Dispatch(kind, call, env) ==
    CASE kind = "simple" -> DispatchSimple(call, env)
      [] kind = "retry" -> DispatchRetry(call, env)
      [] kind = "update_system" -> DispatchUpdateSystem(call, env)

\* g_signal_emit (client, signals [...], 0, ...): what one observer is told
Note(sig, args) == [sig |-> sig, args |-> args]

\* pk_client_change_status: the observers first, then last_status
pk_client_change_status(cl, status) ==
    [cl |-> [cl EXCEPT !.last_status = status],
     notes |-> <<Note("status-changed", <<status>>)>>]

\* "if (ret && !is_finished)": pk_client_change_status (WAIT), and in
\* synchronous mode g_main_loop_run where the method spins
AfterDispatch(cl, ret, spins) ==
    IF ret /\ ~cl.is_finished
    THEN LET s == pk_client_change_status(cl, PK_STATUS_ENUM_WAIT)
         IN  [cl |-> [s.cl EXCEPT !.loop_running = cl.synchronous /\ spins],
              notes |-> s.notes]
    ELSE [cl |-> cl, notes |-> << >>]

\* an action method that asks for the tid before it looks at the package id
ActionEffect_allocate_first(cl, d, valid, upd, method, args, kind, spins, env) ==
    LET a == pk_client_allocate_transaction_id(cl, d, env.alloc)
    IN  IF ~a.ret
        THEN [cl |-> a.cl, d |-> a.d, ret |-> FALSE, err |-> a.err,
              calls |-> a.calls, bound |-> FALSE, call |-> NoCall,
              notes |-> << >>]
        ELSE IF ~valid
        THEN [cl |-> a.cl, d |-> a.d, ret |-> FALSE,
              err |-> pk_client_error_set(PK_CLIENT_ERROR_INVALID_PACKAGEID,
                                          "package_id is not valid"),
              calls |-> a.calls, bound |-> TRUE, call |-> NoCall,
              notes |-> << >>]
        ELSE LET cl1 == Merge(a.cl, upd)
                 call == BusCall(method, cl1.proxy, args)
                 r == Dispatch(kind, call, env)
                 w == AfterDispatch(cl1, r.ret, spins)
             IN  [cl |-> w.cl,
                  d |-> IF r.ret THEN DaemonStart(a.d, cl1.proxy) ELSE a.d,
                  ret |-> r.ret, err |-> r.err,
                  calls |-> a.calls \o r.calls, bound |-> TRUE,
                  call |-> [m |-> method, a |-> args], notes |-> w.notes]

\* an action method that saves the role and its arguments before it asks
\* for the tid
ActionEffect_save_first(cl, d, valid, upd, method, args, kind, spins, env) ==
    IF ~valid
    THEN [cl |-> cl, d |-> d, ret |-> FALSE,
          err |-> pk_client_error_set(PK_CLIENT_ERROR_INVALID_PACKAGEID,
                                      "package_id is not valid"),
          calls |-> << >>, bound |-> FALSE, call |-> NoCall, notes |-> << >>]
    ELSE LET a == pk_client_allocate_transaction_id(Merge(cl, upd), d,
                                                    env.alloc)
         IN  IF ~a.ret
             THEN [cl |-> a.cl, d |-> a.d, ret |-> FALSE, err |-> a.err,
                   calls |-> a.calls, bound |-> FALSE, call |-> NoCall,
                   notes |-> << >>]
             ELSE LET call == BusCall(method, a.cl.proxy, args)
                      r == Dispatch(kind, call, env)
                      w == AfterDispatch(a.cl, r.ret, spins)
                  IN  [cl |-> w.cl,
                       d |-> IF r.ret THEN DaemonStart(a.d, a.cl.proxy) ELSE a.d,
                       ret |-> r.ret, err |-> r.err,
                       calls |-> a.calls \o r.calls, bound |-> TRUE,
                       call |-> [m |-> method, a |-> args],
                       notes |-> w.notes]

\* ------------------------------------------------- one action method call
\* valid: the package-id check of the method; upd: the role and the cached
\* fields the method saves; (method, args): its bus call; kind: how it
\* dispatches; spins: whether it runs the loop in synchronous mode
ActionEffect(cl, d, valid, upd, method, args, kind, spins, env) ==
    IF ~valid
    THEN [cl |-> cl, d |-> d, ret |-> FALSE,
          err |-> pk_client_error_set(PK_CLIENT_ERROR_INVALID_PACKAGEID,
                                      "package_id is not valid"),
          calls |-> << >>, bound |-> FALSE, call |-> NoCall, notes |-> << >>]
    ELSE LET a == pk_client_allocate_transaction_id(cl, d, env.alloc)
         IN  IF ~a.ret
             THEN [cl |-> a.cl, d |-> a.d, ret |-> FALSE, err |-> a.err,
                   calls |-> a.calls, bound |-> FALSE, call |-> NoCall,
              notes |-> << >>]
             ELSE LET cl1 == Merge(a.cl, upd)
                      call == BusCall(method, cl1.proxy, args)
                      r == Dispatch(kind, call, env)
                      w == AfterDispatch(cl1, r.ret, spins)
                  IN  [cl |-> w.cl,
                       d |-> IF r.ret THEN DaemonStart(a.d, cl1.proxy) ELSE a.d,
                       ret |-> r.ret, err |-> r.err,
                       calls |-> a.calls \o r.calls, bound |-> TRUE,
                       call |-> [m |-> method, a |-> args],
                       notes |-> w.notes]

\* the answers of the daemon and of the broker one action call can meet;
\* an answer that is never asked for is "na"
Envs(cl, d, valid, kind) ==
    IF ~valid THEN {NoEnv}
    ELSE {e \in [alloc : {"ok", "fail"}, out1 : {"ok", "denied", "fail", "na"},
                 grant : BOOLEAN,
                 out2 : {"ok", "denied_again", "fail", "na"}] :
            /\ e.alloc = "ok" => d.next <= MaxTid
            /\ (e.out1 = "na") = (e.alloc # "ok" \/ cl.tid # 0)
            /\ e.grant => e.out1 = "denied"
            /\ (e.out2 = "na") = (~e.grant \/ kind = "simple")}

\* the caller is in its main loop and has calls left to make
CallerReady == pc = "idle" /\ ncalls < MaxCalls

\* the notes of a public call reach the observers as they are emitted; t is
\* the transaction they are about, bus tells a relayed signal from a note
\* the client made up itself
Told(notes, t, bus) ==
    [i \in 1..Len(notes) |->
        [sig |-> notes[i].sig, args |-> notes[i].args, t |-> t, bus |-> bus]]

Commit(cl2, d2, conn2, pc2, orig2, last2, hist2) ==
    /\ hist' = IF hist.on THEN hist2 ELSE hist
    /\ c' = cl2
    /\ daemon' = d2
    /\ conn' = conn2
    /\ pc' = pc2
    /\ orig' = orig2
    /\ last' = last2
    /\ ncalls' = ncalls + 1
    /\ peer' = peer

\* an action method or a requeue did r: it returns to the caller, or spins
\* in the private loop; h is what the monitor has kept up to the dispatch
Called(r, op, kind, valid, env, h) ==
    Commit(r.cl, r.d,
           IF r.bound THEN conn \cup Handlers(r.cl.proxy) ELSE conn,
           IF r.cl.loop_running THEN "loop" ELSE "done",
           IF r.bound /\ kind = "action" THEN r.call ELSE orig,
           [op |-> op, kind |-> kind, valid |-> valid,
            ret |-> r.ret,
            err |-> r.err, calls |-> r.calls, env |-> env,
            pre |-> c, preOrig |-> orig,
            returned |-> ~r.cl.loop_running,
            fin |-> r.cl.is_finished],
           [h EXCEPT !.notes = @ \o Told(r.notes, r.cl.tid, FALSE)])

\* the caller invokes an action method
Action(op, valid, upd, method, args, kind, spins) ==
    /\ CallerReady
    /\ \E env \in Envs(c, daemon, valid, kind) :
         Called(ActionEffect(c, daemon, valid, upd, method, args, kind,
                             spins, env),
                op, "action", valid, env, hist)

\* ---------------------------------------------------- the action methods
\* what one action method checks, saves, sends and how
Desc(valid, upd, method, args, kind, spins) ==
    [valid |-> valid, upd |-> upd, method |-> method, args |-> args,
     kind |-> kind, spins |-> spins]

ActionOf(op, d) ==
    Action(op, d.valid, d.upd, d.method, d.args, d.kind, d.spins)

get_updates_desc(filters) ==
    Desc(TRUE, [role |-> "get-updates", cached_filters |-> filters],
         "GetUpdates", <<pk_filter_enums_to_text(filters)>>, "simple", TRUE)

update_system_desc ==
    Desc(TRUE, [role |-> "update-system"],
         "UpdateSystem", << >>, "update_system", TRUE)

search_name_desc(filters, search) ==
    Desc(TRUE, [role |-> "search-name", cached_filters |-> filters,
                cached_search |-> search],
         "SearchName", <<pk_filter_enums_to_text(filters), search>>, "simple", TRUE)

search_details_desc(filters, search) ==
    Desc(TRUE, [role |-> "search-details", cached_filters |-> filters,
                cached_search |-> search],
         "SearchDetails", <<pk_filter_enums_to_text(filters), search>>, "simple", TRUE)

search_group_desc(filters, search) ==
    Desc(TRUE, [role |-> "search-group", cached_filters |-> filters,
                cached_search |-> search],
         "SearchGroup", <<pk_filter_enums_to_text(filters), search>>, "simple", TRUE)

search_file_desc(filters, search) ==
    Desc(TRUE, [role |-> "search-file", cached_filters |-> filters,
                cached_search |-> search],
         "SearchFile", <<pk_filter_enums_to_text(filters), search>>, "simple", TRUE)

get_depends_desc(filters, package_id, recursive) ==
    Desc(pk_package_id_check(package_id),
         [role |-> "get-depends", cached_filters |-> filters,
          cached_package_id |-> package_id, cached_force |-> recursive],
         "GetDepends", <<pk_filter_enums_to_text(filters), package_id, recursive>>, "simple", TRUE)

get_packages_desc(filters) ==
    Desc(TRUE, [role |-> "get-packages", cached_filters |-> filters],
         "GetPackages", <<pk_filter_enums_to_text(filters)>>, "simple", TRUE)

get_requires_desc(filters, package_id, recursive) ==
    Desc(pk_package_id_check(package_id),
         [role |-> "get-requires", cached_filters |-> filters,
          cached_package_id |-> package_id, cached_force |-> recursive],
         "GetRequires", <<pk_filter_enums_to_text(filters), package_id, recursive>>, "simple", TRUE)

what_provides_desc(filters, provides, search) ==
    Desc(TRUE, [role |-> "what-provides", cached_search |-> search,
                cached_filters |-> filters, cached_provides |-> provides],
         "WhatProvides", <<pk_filter_enums_to_text(filters),
          pk_provides_enum_to_text(provides), search>>, "simple", TRUE)

get_update_detail_desc(package_id) ==
    Desc(pk_package_id_check(package_id),
         [role |-> "get-update-detail", cached_package_id |-> package_id],
         "GetUpdateDetail", <<package_id>>, "simple", TRUE)

rollback_desc(transaction_id) ==
    Desc(TRUE, [role |-> "rollback", cached_transaction_id |-> transaction_id],
         "Rollback", <<transaction_id>>, "simple", TRUE)

resolve_desc(filters, package) ==
    Desc(TRUE, [role |-> "resolve", cached_filters |-> filters,
                cached_package_id |-> package],
         "Resolve", <<pk_filter_enums_to_text(filters), package>>, "simple", TRUE)

get_details_desc(package_id) ==
    Desc(pk_package_id_check(package_id),
         [role |-> "get-details", cached_package_id |-> package_id],
         "GetDetails", <<package_id>>, "simple", TRUE)

get_files_desc(package_id) ==
    Desc(pk_package_id_check(package_id),
         [role |-> "get-files", cached_package_id |-> package_id],
         "GetFiles", <<package_id>>, "simple", TRUE)

remove_packages_desc(package_ids, allow_deps, autoremove) ==
    Desc(pk_package_ids_check(package_ids),
         [role |-> "remove-packages", cached_allow_deps |-> allow_deps,
          cached_autoremove |-> autoremove,
          cached_package_ids |-> package_ids],
         "RemovePackages", <<package_ids, allow_deps, autoremove>>,
         "retry", TRUE)

refresh_cache_desc(force) ==
    Desc(TRUE, [role |-> "refresh-cache", cached_force |-> force],
         "RefreshCache", <<force>>, "retry", TRUE)

install_packages_desc(package_ids) ==
    Desc(pk_package_ids_check(package_ids),
         [role |-> "install-packages", cached_package_ids |-> package_ids],
         "InstallPackages", <<package_ids>>, "retry", TRUE)

install_signature_desc(type, key_id, package_id) ==
    Desc(pk_package_id_check(package_id),
         [role |-> "install-signature", cached_package_id |-> package_id,
          cached_key_id |-> key_id],
         "InstallSignature",
         <<pk_sig_type_enum_to_text(type), key_id, package_id>>,
         "retry", TRUE)

update_packages_desc(package_ids) ==
    Desc(pk_package_ids_check(package_ids),
         [role |-> "update-packages", cached_package_ids |-> package_ids],
         "UpdatePackages", <<package_ids>>, "retry", TRUE)

\* realpath of a path of the caller
pk_resolve_local_path(rel_path) ==
    IF rel_path = "../a.rpm" THEN "/tmp/a.rpm" ELSE rel_path

install_files_desc(trusted, files_rel) ==
    LET files == [i \in 1..Len(files_rel) |->
                      pk_resolve_local_path(files_rel[i])]
    IN  Desc(TRUE, [role |-> "install-files", cached_trusted |-> trusted,
                    cached_full_paths |-> files],
             "InstallFiles", <<trusted, files>>, "retry", TRUE)

get_repo_list_desc(filters) ==
    Desc(TRUE, [role |-> "get-repo-list", cached_filters |-> filters],
         "GetRepoList", <<pk_filter_enums_to_text(filters)>>, "simple", TRUE)

accept_eula_desc(eula_id) ==
    Desc(TRUE, [role |-> "accept-eula"],
         "AcceptEula", <<eula_id>>, "retry", TRUE)

repo_enable_desc(repo_id, enabled) ==
    Desc(TRUE, [role |-> "repo-enable"],
         "RepoEnable", <<repo_id, enabled>>, "retry", TRUE)

repo_set_data_desc(repo_id, parameter, value) ==
    Desc(TRUE, [role |-> "repo-set-data"],
         "RepoSetData", <<repo_id, parameter, value>>, "retry", TRUE)

\* no role is saved, and the loop is not run in synchronous mode
get_old_transactions_desc(number) ==
    Desc(TRUE, << >>, "GetOldTransactions", <<number>>, "simple", FALSE)

pk_client_get_updates ==
    \E filters \in Filters : ActionOf("get_updates", get_updates_desc(filters))

pk_client_update_system == ActionOf("update_system", update_system_desc)

pk_client_search_name ==
    \E filters \in Filters, search \in Searches :
        ActionOf("search_name", search_name_desc(filters, search))

pk_client_search_details ==
    \E filters \in Filters, search \in Searches :
        ActionOf("search_details", search_details_desc(filters, search))

pk_client_search_group ==
    \E filters \in Filters, search \in Searches :
        ActionOf("search_group", search_group_desc(filters, search))

pk_client_search_file ==
    \E filters \in Filters, search \in Searches :
        ActionOf("search_file", search_file_desc(filters, search))

pk_client_get_depends ==
    \E filters \in Filters, package_id \in PackageIds, recursive \in Flags :
        ActionOf("get_depends", get_depends_desc(filters, package_id, recursive))

pk_client_get_packages ==
    \E filters \in Filters : ActionOf("get_packages", get_packages_desc(filters))

pk_client_get_requires ==
    \E filters \in Filters, package_id \in PackageIds, recursive \in Flags :
        ActionOf("get_requires", get_requires_desc(filters, package_id, recursive))

pk_client_what_provides ==
    \E filters \in Filters, provides \in Provides, search \in Searches :
        ActionOf("what_provides", what_provides_desc(filters, provides, search))

pk_client_get_update_detail ==
    \E package_id \in PackageIds :
        ActionOf("get_update_detail", get_update_detail_desc(package_id))

pk_client_rollback ==
    \E transaction_id \in OldTids :
        ActionOf("rollback", rollback_desc(transaction_id))

pk_client_resolve ==
    \E filters \in Filters, package \in PackageNames :
        ActionOf("resolve", resolve_desc(filters, package))

pk_client_get_details ==
    \E package_id \in PackageIds :
        ActionOf("get_details", get_details_desc(package_id))

pk_client_get_files ==
    \E package_id \in PackageIds :
        ActionOf("get_files", get_files_desc(package_id))

pk_client_remove_packages ==
    \E package_ids \in PackageIdLists, allow_deps \in Flags,
       autoremove \in Flags :
        ActionOf("remove_packages",
                 remove_packages_desc(package_ids, allow_deps, autoremove))

pk_client_refresh_cache ==
    \E force \in Flags : ActionOf("refresh_cache", refresh_cache_desc(force))

pk_client_install_packages ==
    \E package_ids \in PackageIdLists :
        ActionOf("install_packages", install_packages_desc(package_ids))

pk_client_install_signature ==
    \E key_id \in KeyIds, package_id \in PackageIds :
        ActionOf("install_signature",
                 install_signature_desc(PK_SIGTYPE_ENUM_GPG, key_id, package_id))

pk_client_update_packages ==
    \E package_ids \in PackageIdLists :
        ActionOf("update_packages", update_packages_desc(package_ids))

pk_client_install_files ==
    \E trusted \in Flags, files_rel \in FileLists :
        ActionOf("install_files", install_files_desc(trusted, files_rel))

pk_client_get_repo_list ==
    \E filters \in Filters :
        ActionOf("get_repo_list", get_repo_list_desc(filters))

pk_client_accept_eula ==
    \E eula_id \in EulaIds : ActionOf("accept_eula", accept_eula_desc(eula_id))

pk_client_repo_enable ==
    \E repo_id \in RepoIds, enabled \in Flags :
        ActionOf("repo_enable", repo_enable_desc(repo_id, enabled))

pk_client_repo_set_data ==
    \E repo_id \in RepoIds :
        ActionOf("repo_set_data", repo_set_data_desc(repo_id, "key", "value"))

pk_client_get_old_transactions ==
    \E number \in Numbers :
        ActionOf("get_old_transactions", get_old_transactions_desc(number))

\* -------------------------------------------------------------- cancel
\* the GError of a Cancel call the daemon answered with `out`
CancelError(out) ==
    CASE out = "notrunning" -> RemoteError("Other", CancelNotRunning)
      [] out = "noexist" -> RemoteError("Other", CancelNoExist)
      [] out = "refused" -> RemoteError("Other", CancelRefused)
      [] OTHER -> NoError

\* g_str_has_suffix (message, " doesn't exist\n")
HasSuffixDoesntExist(msg) == msg = CancelNoExist

\* a cancel that reports every remote error, the two "already over" ones too
pk_client_cancel_strict(cl, out) ==
    IF cl.proxy = 0
    THEN [ret |-> TRUE, err |-> NoError, calls |-> << >>]
    ELSE LET call == BusCall("Cancel", cl.proxy, << >>)
         IN  IF out = "ok"
             THEN [ret |-> TRUE, err |-> NoError, calls |-> <<call>>]
             ELSE [ret |-> FALSE,
                   err |-> pk_client_error_fixup(CancelError(out)),
                   calls |-> <<call>>]

\* pk_client_cancel: nothing to do without a proxy; else the Cancel call,
\* whose "not running" and "doesn't exist" errors count as success
pk_client_cancel(cl, out) ==
    IF cl.proxy = 0
    THEN [ret |-> TRUE, err |-> NoError, calls |-> << >>]
    ELSE LET call == BusCall("Cancel", cl.proxy, << >>)
             error_local == CancelError(out)
         IN  IF out = "ok"
             THEN [ret |-> TRUE, err |-> NoError, calls |-> <<call>>]
             ELSE IF error_local.msg = CancelNotRunning
                     \/ HasSuffixDoesntExist(error_local.msg)
             THEN [ret |-> TRUE, err |-> NoError, calls |-> <<call>>]
             ELSE [ret |-> FALSE, err |-> pk_client_error_fixup(error_local),
                   calls |-> <<call>>]

CancelOuts(cl) ==
    IF cl.proxy = 0 THEN {"na"} ELSE {"ok", "notrunning", "noexist", "refused"}

\* a cancel that takes the transaction for over once the daemon accepted it
Cancel_completes ==
    /\ CallerReady
    /\ \E out \in CancelOuts(c) :
         LET r == pk_client_cancel(c, out)
         IN  Commit([c EXCEPT !.is_finished = @ \/ (r.ret /\ r.calls # << >>)],
                    DaemonCancel(daemon, c.proxy, out), conn, "done", orig,
                    [op |-> "cancel", kind |-> "cancel", valid |-> TRUE,
                     ret |-> r.ret,
                     err |-> r.err, calls |-> r.calls,
                     env |-> [NoEnv EXCEPT !.out1 = out],
                     pre |-> c, preOrig |-> orig, returned |-> TRUE,
                     fin |-> c.is_finished],
                    hist)

Cancel ==
    /\ CallerReady
    /\ \E out \in CancelOuts(c) :
         LET r == pk_client_cancel(c, out)
         IN  Commit(c, DaemonCancel(daemon, c.proxy, out), conn, "done", orig,
                    [op |-> "cancel", kind |-> "cancel", valid |-> TRUE,
                     ret |-> r.ret,
                     err |-> r.err, calls |-> r.calls,
                     env |-> [NoEnv EXCEPT !.out1 = out],
                     pre |-> c, preOrig |-> orig, returned |-> TRUE,
                     fin |-> c.is_finished],
                    hist)

\* --------------------------------------------------------------- reset
\* a reset that keeps every cached argument for a later requeue
ResetFields_keep_cached(cl) ==
    [cl EXCEPT !.tid = 0, !.proxy = 0,
               !.last_status = PK_STATUS_ENUM_UNKNOWN,
               !.role = PK_ROLE_ENUM_UNKNOWN,
               !.is_finished = FALSE,
               !.package_list = << >>]

\* a reset that leaves the package list as it is
ResetFields_keep_list(cl) ==
    [cl EXCEPT !.tid = 0, !.proxy = 0,
               !.cached_package_id = NULL, !.cached_key_id = NULL,
               !.cached_transaction_id = NULL, !.cached_full_path = NULL,
               !.cached_full_paths = NULLV, !.cached_search = NULL,
               !.cached_package_ids = NULLV,
               !.cached_filters = PK_FILTER_ENUM_UNKNOWN,
               !.last_status = PK_STATUS_ENUM_UNKNOWN,
               !.role = PK_ROLE_ENUM_UNKNOWN,
               !.is_finished = FALSE]

\* the fields pk_client_reset sets after the cancel went through
ResetFields(cl) ==
    [cl EXCEPT !.tid = 0, !.proxy = 0,
               !.cached_package_id = NULL, !.cached_key_id = NULL,
               !.cached_transaction_id = NULL, !.cached_full_path = NULL,
               !.cached_full_paths = NULLV, !.cached_search = NULL,
               !.cached_package_ids = NULLV,
               !.cached_filters = PK_FILTER_ENUM_UNKNOWN,
               !.last_status = PK_STATUS_ENUM_UNKNOWN,
               !.role = PK_ROLE_ENUM_UNKNOWN,
               !.is_finished = FALSE,
               !.package_list = << >>]

\* a g_object_unref that leaves the proxy alive
ProxyUnref_leak(cn, proxy) == cn

\* g_object_unref (proxy) of the only reference: the proxy is finalised and
\* the handlers still on it go with it
ProxyUnref(cn, proxy) == {h \in cn : h[1] # proxy}

\* pk_client_disconnect_proxy: fourteen handlers come off the current proxy,
\* then the proxy is unreferenced
pk_client_disconnect_proxy(cl, cn) ==
    IF cl.proxy = 0
    THEN cn
    ELSE ProxyUnref(cn \ {<<cl.proxy, sig>> : sig \in DisconnectSignals},
                    cl.proxy)

\* a pk_client_reset that never cancels
ResetCancels_never(cl) == FALSE

\* does pk_client_reset cancel first?
ResetCancels(cl) == cl.tid # 0 /\ ~cl.is_finished

\* a reset that goes on although the cancel failed
pk_client_reset_ignores_cancel(cl, cn, out) ==
    LET r == IF ResetCancels(cl) THEN pk_client_cancel(cl, out)
             ELSE [ret |-> TRUE, err |-> NoError, calls |-> << >>]
    IN  [ret |-> TRUE, err |-> NoError, calls |-> r.calls,
         cl |-> ResetFields(cl),
         conn |-> pk_client_disconnect_proxy(cl, cn)]

pk_client_reset(cl, cn, out) ==
    LET r == IF ResetCancels(cl) THEN pk_client_cancel(cl, out)
             ELSE [ret |-> TRUE, err |-> NoError, calls |-> << >>]
    IN  IF ~r.ret
        THEN [ret |-> FALSE, err |-> r.err, calls |-> r.calls,
              cl |-> cl, conn |-> cn]
        ELSE [ret |-> TRUE, err |-> NoError, calls |-> r.calls,
              cl |-> ResetFields(cl),
              conn |-> pk_client_disconnect_proxy(cl, cn)]

Reset ==
    /\ CallerReady
    /\ \E out \in (IF ResetCancels(c) THEN CancelOuts(c) ELSE {"na"}) :
         LET r == pk_client_reset(c, conn, out)
         IN  Commit(r.cl, DaemonCancel(daemon, c.proxy, out), r.conn, "done",
                    orig,
                    [op |-> "reset", kind |-> "reset", valid |-> TRUE,
                     ret |-> r.ret,
                     err |-> r.err, calls |-> r.calls,
                     env |-> [NoEnv EXCEPT !.out1 = out],
                     pre |-> c, preOrig |-> orig, returned |-> TRUE,
                     fin |-> r.cl.is_finished],
                    IF r.ret
                    THEN [hist EXCEPT !.notes = << >>, !.inbound = << >>]
                    ELSE hist)

\* -------------------------------------------------------------- requeue
\* the roles pk_client_requeue has a branch for
RequeueRoles ==
    {"get-depends", "get-update-detail", "resolve", "rollback", "get-details",
     "get-files", "get-requires", "get-updates", "search-details",
     "search-file", "search-group", "search-name", "install-packages",
     "install-files", "install-signature", "refresh-cache", "remove-packages",
     "update-packages", "update-system", "get-repo-list"}

\* "do the correct action with the cached parameters"
RequeueDesc(priv) ==
    CASE priv.role = "get-depends" ->
            get_depends_desc(priv.cached_filters, priv.cached_package_id,
                             priv.cached_force)
      [] priv.role = "get-update-detail" ->
            get_update_detail_desc(priv.cached_package_id)
      [] priv.role = "resolve" ->
            resolve_desc(priv.cached_filters, priv.cached_package_id)
      [] priv.role = "rollback" -> rollback_desc(priv.cached_transaction_id)
      [] priv.role = "get-details" -> get_details_desc(priv.cached_package_id)
      [] priv.role = "get-files" -> get_files_desc(priv.cached_package_id)
      [] priv.role = "get-requires" ->
            get_requires_desc(priv.cached_filters, priv.cached_package_id,
                              priv.cached_force)
      [] priv.role = "get-updates" -> get_updates_desc(priv.cached_filters)
      [] priv.role = "search-details" ->
            search_details_desc(priv.cached_filters, priv.cached_search)
      [] priv.role = "search-file" ->
            search_file_desc(priv.cached_filters, priv.cached_search)
      [] priv.role = "search-group" ->
            search_group_desc(priv.cached_filters, priv.cached_search)
      [] priv.role = "search-name" ->
            search_name_desc(priv.cached_filters, priv.cached_search)
      [] priv.role = "install-packages" ->
            install_packages_desc(priv.cached_package_ids)
      [] priv.role = "install-files" ->
            install_files_desc(priv.cached_trusted, priv.cached_full_paths)
      [] priv.role = "install-signature" ->
            install_signature_desc(PK_SIGTYPE_ENUM_GPG, priv.cached_key_id,
                                   priv.cached_package_id)
      [] priv.role = "refresh-cache" -> refresh_cache_desc(priv.cached_force)
      [] priv.role = "remove-packages" ->
            remove_packages_desc(priv.cached_package_ids,
                                 priv.cached_allow_deps,
                                 priv.cached_autoremove)
      [] priv.role = "update-packages" ->
            update_packages_desc(priv.cached_package_ids)
      [] priv.role = "update-system" -> update_system_desc
      [] priv.role = "get-repo-list" ->
            get_repo_list_desc(priv.cached_filters)

\* "clear enough data of the client to allow us to requeue"
RequeueClear(cl) ==
    [cl EXCEPT !.tid = 0, !.last_status = PK_STATUS_ENUM_UNKNOWN,
               !.is_finished = FALSE, !.package_list = << >>]

\* a requeue that only looks at the role, not at the finished flag
RequeueRefused_role_only(cl) ==
    IF cl.role = PK_ROLE_ENUM_UNKNOWN
    THEN pk_client_error_set(PK_CLIENT_ERROR_ROLE_UNKNOWN,
                             "role unknown for reque")
    ELSE NoError

\* a requeue that asks "are we still running?" before it looks at the role
RequeueRefused_finished_first(cl) ==
    IF ~cl.is_finished
    THEN pk_client_error_set(PK_CLIENT_ERROR_FAILED,
                             "not finished, so cannot requeue")
    ELSE IF cl.role = PK_ROLE_ENUM_UNKNOWN
    THEN pk_client_error_set(PK_CLIENT_ERROR_ROLE_UNKNOWN,
                             "role unknown for reque")
    ELSE NoError

\* the two early returns of pk_client_requeue
RequeueRefused(cl) ==
    IF cl.role = PK_ROLE_ENUM_UNKNOWN
    THEN pk_client_error_set(PK_CLIENT_ERROR_ROLE_UNKNOWN,
                             "role unknown for reque")
    ELSE IF ~cl.is_finished
    THEN pk_client_error_set(PK_CLIENT_ERROR_FAILED,
                             "not finished, so cannot requeue")
    ELSE NoError

pk_client_requeue(cl, d, env) ==
    IF RequeueRefused(cl) # NoError
    THEN [cl |-> cl, d |-> d, ret |-> FALSE, err |-> RequeueRefused(cl),
          calls |-> << >>, bound |-> FALSE, call |-> NoCall, notes |-> << >>]
    ELSE LET cl1 == RequeueClear(cl)
         IN  IF cl1.role \in RequeueRoles
             THEN LET ds == RequeueDesc(cl1)
                      r == ActionEffect(cl1, d, ds.valid, ds.upd, ds.method,
                                        ds.args, ds.kind, ds.spins, env)
                  IN  [r EXCEPT !.err = pk_client_error_fixup(r.err)]
             ELSE [cl |-> cl1, d |-> d, ret |-> FALSE,
                   err |-> pk_client_error_set(PK_CLIENT_ERROR_ROLE_UNKNOWN,
                                               "role unknown for reque"),
                   calls |-> << >>, bound |-> FALSE, call |-> NoCall,
                   notes |-> << >>]

RequeueEnvs(cl, d) ==
    IF RequeueRefused(cl) # NoError \/ cl.role \notin RequeueRoles
    THEN {NoEnv}
    ELSE Envs(RequeueClear(cl), d, RequeueDesc(cl).valid, RequeueDesc(cl).kind)

Requeue ==
    /\ CallerReady
    /\ \E env \in RequeueEnvs(c, daemon) :
         Called(pk_client_requeue(c, daemon, env),
                "requeue", "requeue", TRUE, env,
                IF RequeueRefused(c) = NoError
                THEN [hist EXCEPT !.notes = << >>, !.inbound = << >>]
                ELSE hist)

\* ------------------------------------------- binding a known transaction
\* the caller hands the client the tid of a transaction, one the daemon
\* gave out or a made up one
SetTid ==
    /\ CallerReady
    /\ \E tid \in Tids :
         LET r == pk_client_set_tid(c, tid)
         IN  Commit(r.cl, daemon,
                    IF r.bound THEN conn \cup Handlers(tid) ELSE conn,
                    "done", orig,
                    [op |-> "set_tid", kind |-> "set_tid", valid |-> TRUE,
                     ret |-> r.ret, err |-> r.err, calls |-> << >>,
                     env |-> NoEnv, pre |-> c, preOrig |-> orig,
                     returned |-> TRUE, fin |-> c.is_finished],
                    hist)

\* ------------------------------------------------------------ the queries
\* "check to see if we have a valid proxy", the query call, then
\* pk_client_error_fixup: pk_client_is_caller_active, and the rest of the
\* others
QueryProxy(cl, method, out) ==
    IF cl.proxy = 0
    THEN [ret |-> FALSE,
          err |-> pk_client_error_set(PK_CLIENT_ERROR_NO_TID,
                                      "No proxy for transaction"),
          calls |-> << >>]
    ELSE [ret |-> out = "ok", err |-> pk_client_error_fixup(OutError(out)),
          calls |-> <<BusCall(method, cl.proxy, << >>)>>]

\* pk_client_get_status, pk_client_get_package, pk_client_get_progress and
\* pk_client_get_allow_cancel start with g_return_val_if_fail (tid != NULL,
\* FALSE); checks: the build has the g_return checks (no G_DISABLE_CHECKS)
QueryTid(cl, method, checks, out) ==
    IF checks /\ cl.tid = 0
    THEN [ret |-> FALSE, err |-> NoError, calls |-> << >>]
    ELSE QueryProxy(cl, method, out)

\* pk_client_get_role: the role the client saved is enough when the caller
\* does not ask for the package id
GetRole(cl, package_id_wanted, out) ==
    IF cl.proxy # 0 /\ ~package_id_wanted /\ cl.role # PK_ROLE_ENUM_UNKNOWN
    THEN [ret |-> TRUE, err |-> NoError, calls |-> << >>]
    ELSE QueryProxy(cl, "GetRole", out)

\* the answers of the daemon a query can meet
QueryOuts(cl) == IF cl.proxy = 0 THEN {"na"} ELSE {"ok", "fail"}

Query(op, r, out) ==
    /\ CallerReady
    /\ Commit(c, daemon, conn, "done", orig,
              [op |-> op, kind |-> "query", valid |-> TRUE, ret |-> r.ret,
               err |-> r.err, calls |-> r.calls,
               env |-> [NoEnv EXCEPT !.out1 = IF r.calls = << >> THEN "na"
                                              ELSE out],
               pre |-> c, preOrig |-> orig,
               returned |-> TRUE, fin |-> c.is_finished],
              hist)

pk_client_get_allow_cancel ==
    \E checks \in BOOLEAN, out \in QueryOuts(c) :
        Query("get_allow_cancel", QueryTid(c, "GetAllowCancel", checks, out), out)

pk_client_get_status ==
    \E checks \in BOOLEAN, out \in QueryOuts(c) :
        Query("get_status", QueryTid(c, "GetStatus", checks, out), out)

pk_client_get_package ==
    \E checks \in BOOLEAN, out \in QueryOuts(c) :
        Query("get_package", QueryTid(c, "GetPackage", checks, out), out)

pk_client_get_progress ==
    \E checks \in BOOLEAN, out \in QueryOuts(c) :
        Query("get_progress", QueryTid(c, "GetProgress", checks, out), out)

pk_client_get_role ==
    \E package_id_wanted \in BOOLEAN, out \in QueryOuts(c) :
        Query("get_role", GetRole(c, package_id_wanted, out), out)

pk_client_is_caller_active ==
    \E out \in QueryOuts(c) :
        Query("is_caller_active", QueryProxy(c, "IsCallerActive", out), out)

\* ------------------------------------------------------- the two switches
pk_client_set_use_buffer(cl, use_buffer) ==
    IF cl.use_buffer
    THEN [ret |-> FALSE, cl |-> cl,
          err |-> pk_client_error_set(PK_CLIENT_ERROR_FAILED,
                                      "already set use_buffer!")]
    ELSE [ret |-> TRUE, err |-> NoError,
          cl |-> [cl EXCEPT !.use_buffer = use_buffer]]

pk_client_set_synchronous(cl, synchronous) ==
    IF cl.synchronous
    THEN [ret |-> FALSE, cl |-> cl,
          err |-> pk_client_error_set(PK_CLIENT_ERROR_FAILED,
                                      "already set synchronous!")]
    ELSE [ret |-> TRUE, err |-> NoError,
          cl |-> [cl EXCEPT !.synchronous = synchronous]]

Switch(op, r) ==
    /\ CallerReady
    /\ Commit(r.cl, daemon, conn, "done", orig,
              [op |-> op, kind |-> "switch", valid |-> TRUE, ret |-> r.ret,
               err |-> r.err,
               calls |-> << >>, env |-> NoEnv, pre |-> c, preOrig |-> orig,
               returned |-> TRUE, fin |-> c.is_finished],
              hist)

SetUseBuffer == Switch("set_use_buffer", pk_client_set_use_buffer(c, TRUE))

SetSynchronous == Switch("set_synchronous", pk_client_set_synchronous(c, TRUE))

\* ------------------------------------------------------------ the events
\* the transactions that still emit signals
Live == {t \in Tids : daemon.txn[t] \in {"running", "cancelling"}}

\* signals are dispatched by a main loop: the caller's (which goes on after
\* the client is finalised), or the private one of a synchronous call
Dispatching == pc \in {"idle", "loop", "gone"}

MoreEvents == Dispatching /\ Live # {} /\ daemon.sent < MaxEvents

Sent(d) == [d EXCEPT !.sent = d.sent + 1]

\* a main loop that dispatches only what the client running it waits for
PeerHears_own_loop(t, sig) == pc # "loop" /\ <<t, sig>> \in peer.conn

\* a bus that hands a signal to the first proxy of a transaction only
PeerHears_first_proxy(t, sig) == <<t, sig>> \in peer.conn \ conn

\* the second client has a handler on the signal: every proxy of the
\* process is served by the default main context, which the caller's loop
\* and the private loop of a blocked client (g_main_loop_new (NULL, FALSE))
\* both run
PeerHears(t, sig) == <<t, sig>> \in peer.conn

\* the second client after the signal sig of t, rp being what its handler
\* does
PeerAfter(t, sig, raw, rp) ==
    LET ev == [sig |-> sig, args |-> raw, t |-> t]
        p1 == IF peer.on /\ peer.cl.tid = t
              THEN [peer EXCEPT !.emitted = Append(@, ev)]
              ELSE peer
    IN  IF PeerHears(t, sig)
        THEN [p1 EXCEPT !.cl = rp.cl,
                        !.notes = @ \o Told(rp.notes, t, TRUE),
                        !.inloop = IF pc = "loop" THEN @ + Len(rp.notes)
                                   ELSE @]
        ELSE p1

\* the bus hands the signal sig of transaction t, with the arguments raw, to
\* the handler the client has on it (r is what the handler does) and to the
\* handler of the second client (rp); a signal the client does not listen
\* to is lost to it
Deliver(t, sig, raw, r, rp, d2) ==
    /\ IF <<t, sig>> \in conn
       THEN /\ c' = r.cl
            /\ daemon' = d2
            /\ hist' = IF ~hist.on THEN hist
                       ELSE [hist EXCEPT
                               !.notes = @ \o Told(r.notes, t, TRUE),
                               !.inbound = Append(@,
                                            [sig |-> sig, args |-> raw, t |-> t,
                                             mode |-> c.use_buffer
                                                        \/ c.synchronous]),
                               !.restarts = IF sig = "RequireRestart"
                                            THEN @ \cup {raw[1]}
                                            ELSE @]
       ELSE /\ c' = c
            /\ daemon' = [d2 EXCEPT !.lost = sig]
            /\ hist' = hist
    /\ peer' = PeerAfter(t, sig, raw, rp)
    /\ UNCHANGED <<conn, pc, orig, ncalls, last>>

\* a pk_client_package_cb that keeps a package it stores to itself
pk_client_package_cb_quiet(cl, info_text, package_id, summary) ==
    LET info == pk_info_enum_from_text(info_text)
    IN  IF cl.use_buffer \/ cl.synchronous
        THEN [cl |-> [cl EXCEPT !.package_list =
                         Append(cl.package_list, <<info, package_id, summary>>)],
              notes |-> << >>]
        ELSE [cl |-> cl,
              notes |-> <<Note("package", <<info, package_id, summary>>)>>]

\* pk_client_package_cb: the package goes to the observers, and into the
\* list when the buffer or the synchronous mode is on
pk_client_package_cb(cl, info_text, package_id, summary) ==
    LET info == pk_info_enum_from_text(info_text)
    IN  [cl |-> IF cl.use_buffer \/ cl.synchronous
                THEN [cl EXCEPT !.package_list =
                         Append(cl.package_list, <<info, package_id, summary>>)]
                ELSE cl,
         notes |-> <<Note("package", <<info, package_id, summary>>)>>]

PackageEvent ==
    /\ MoreEvents
    /\ \E t \in Live, pkg \in PackageEvents :
         Deliver(t, "Package", pkg,
                 pk_client_package_cb(c, pkg[1], pkg[2], pkg[3]),
                 pk_client_package_cb(peer.cl, pkg[1], pkg[2], pkg[3]),
                 Sent(daemon))

\* pk_client_status_changed_cb -> pk_client_change_status
pk_client_status_changed_cb(cl, status_text) ==
    pk_client_change_status(cl, pk_status_enum_from_text(status_text))

StatusChangedEvent ==
    /\ MoreEvents
    /\ \E t \in Live, status_text \in StatusEvents :
         Deliver(t, "StatusChanged", <<status_text>>,
                 pk_client_status_changed_cb(c, status_text),
                 pk_client_status_changed_cb(peer.cl, status_text),
                 Sent(daemon))

\* a pk_client_require_restart_cb that keeps the restart it heard last
pk_client_require_restart_cb_latest(cl, restart_text) ==
    LET restart == pk_restart_enum_from_text(restart_text)
    IN  [cl |-> [cl EXCEPT !.require_restart = restart],
         notes |-> <<Note("require-restart", <<restart>>)>>]

\* pk_client_require_restart_cb: the observers are told, and only a worse
\* restart is kept
pk_client_require_restart_cb(cl, restart_text) ==
    LET restart == pk_restart_enum_from_text(restart_text)
    IN  [cl |-> IF restart > cl.require_restart
                THEN [cl EXCEPT !.require_restart = restart]
                ELSE cl,
         notes |-> <<Note("require-restart", <<restart>>)>>]

RequireRestartEvent ==
    /\ MoreEvents
    /\ \E t \in Live, restart_text \in RestartTexts :
         Deliver(t, "RequireRestart", <<restart_text>>,
                 pk_client_require_restart_cb(c, restart_text),
                 pk_client_require_restart_cb(peer.cl, restart_text),
                 Sent(daemon))

\* pk_client_update_detail_cb: the observers are told, nothing is kept
pk_client_update_detail_cb(cl, package_id) ==
    [cl |-> cl, notes |-> <<Note("update-detail", <<package_id>>)>>]

UpdateDetailEvent ==
    /\ MoreEvents
    /\ \E t \in Live, package_id \in UpdateDetailEvents :
         Deliver(t, "UpdateDetail", <<package_id>>,
                 pk_client_update_detail_cb(c, package_id),
                 pk_client_update_detail_cb(peer.cl, package_id),
                 Sent(daemon))

\* a pk_client_finished_cb that reports the status once more after Finished
pk_client_finished_cb_then_status(cl, exit_text) ==
    [cl |-> [cl EXCEPT !.is_finished = TRUE,
                       !.loop_running = IF cl.synchronous THEN FALSE
                                        ELSE cl.loop_running],
     notes |-> <<Note("finished", <<pk_exit_enum_from_text(exit_text)>>),
                 Note("status-changed", <<cl.last_status>>)>>]

\* pk_client_finished_cb: the flag first, then the observers, then the
\* private loop is told to quit
pk_client_finished_cb(cl, exit_text) ==
    [cl |-> [cl EXCEPT !.is_finished = TRUE,
                       !.loop_running = IF cl.synchronous THEN FALSE
                                        ELSE cl.loop_running],
     notes |-> <<Note("finished", <<pk_exit_enum_from_text(exit_text)>>)>>]

\* a transaction that was asked to stop ends as cancelled, any other as a
\* success
FinishedEvent ==
    /\ Dispatching
    /\ \E t \in Live :
         LET exit_text == IF daemon.txn[t] = "cancelling" THEN "cancelled"
                          ELSE "success"
         IN  Deliver(t, "Finished", <<exit_text>>,
                     pk_client_finished_cb(c, exit_text),
                     pk_client_finished_cb(peer.cl, exit_text),
                     [daemon EXCEPT !.txn[t] = "finished"])

\* ------------------------------------------------------------- accessors
pk_client_get_require_restart(cl) == cl.require_restart

\* pk_package_list_get_size and the like through a pointer the accessor
\* handed out: the list is the one object priv->package_list of the client,
\* made in pk_client_init and referenced, never copied
ListItems(list) == IF list = NULL THEN << >> ELSE c.package_list

\* a pk_client_get_package_list that hands out the list in any mode
pk_client_get_package_list_any(cl) ==
    [list |-> "PkPackageList", items |-> cl.package_list]

\* pk_client_get_package_list: NULL unless use_buffer is set, else the list
\* of the client
pk_client_get_package_list(cl) ==
    IF ~cl.use_buffer
    THEN [list |-> NULL, items |-> << >>]
    ELSE [list |-> "PkPackageList", items |-> cl.package_list]

\* the caller asks for the package list and keeps what it gets
GetPackageList ==
    /\ CallerReady
    /\ Commit(c, daemon, conn, "done", orig,
              [op |-> "get_package_list", kind |-> "accessor", valid |-> TRUE,
               ret |-> TRUE, err |-> NoError, calls |-> << >>,
               env |-> NoEnv, pre |-> c, preOrig |-> orig,
               returned |-> TRUE, fin |-> c.is_finished],
              [hist EXCEPT !.got = pk_client_get_package_list(c)])

\* ------------------------------------------------------------- finalize
\* a pk_client_finalize that leaves the private loop running
pk_client_finalize_no_quit(cl, cn) ==
    [cl |-> [cl EXCEPT !.proxy = 0],
     conn |-> pk_client_disconnect_proxy(cl, cn)]

\* pk_client_finalize: the private loop is told to quit, the handlers come
\* off the proxy
pk_client_finalize(cl, cn) ==
    [cl |-> [cl EXCEPT !.proxy = 0,
                       !.loop_running = IF cl.synchronous THEN FALSE
                                        ELSE cl.loop_running],
     conn |-> pk_client_disconnect_proxy(cl, cn)]

\* the caller drops its last reference to the client
Finalize ==
    /\ CallerReady
    /\ LET r == pk_client_finalize(c, conn)
       IN  Commit(r.cl, daemon, r.conn, "gone", orig,
                  [op |-> "finalize", kind |-> "finalize", valid |-> TRUE,
                   ret |-> TRUE, err |-> NoError, calls |-> << >>,
                   env |-> NoEnv, pre |-> c, preOrig |-> orig,
                   returned |-> TRUE, fin |-> c.is_finished],
                  [hist EXCEPT !.notes = << >>, !.inbound = << >>])

\* the last reference goes while an action call of the client is blocked
\* in its loop: a handler the loop dispatched dropped it
FinalizeBlocked ==
    /\ pc = "loop"
    /\ LET r == pk_client_finalize(c, conn)
       IN  /\ c' = r.cl
           /\ conn' = r.conn
    /\ pc' = "unwinding"
    /\ hist' = [hist EXCEPT !.notes = << >>, !.inbound = << >>]
    /\ UNCHANGED <<daemon, orig, ncalls, last, peer>>

\* ---------------------------------------- Finished and the last reference
\* a Finished handler that does not hold the client
HandlerRef_none(st) == st

\* g_object_ref (client) at the head of pk_client_finished_cb
HandlerRef(st) == [st EXCEPT !.refs = @ + 1]

\* g_object_unref (client): the last reference finalises the client; at
\* names the place
HandlerUnref(st, at) ==
    IF st.refs > 1 \/ st.torn.at # "none"
    THEN [st EXCEPT !.refs = IF @ > 0 THEN @ - 1 ELSE 0]
    ELSE [st EXCEPT !.refs = 0,
                    !.cl = pk_client_finalize(st.cl, st.conn).cl,
                    !.conn = pk_client_finalize(st.cl, st.conn).conn,
                    !.torn = [at |-> at, flag |-> st.cl.is_finished,
                              told |-> st.notes # << >>, uaf |-> FALSE]]

\* the handler reads or writes client->priv: cl2 is the client after it
HandlerUses(st, cl2) ==
    IF st.torn.at # "none"
    THEN [st EXCEPT !.torn.uaf = TRUE]
    ELSE [st EXCEPT !.cl = cl2]

\* pk_client_finished_cb step by step, the caller holding refs references
\* and an observer of ::finished dropping one: reference, flag, emission,
\* quit of the private loop, unreference
pk_client_finished_cb_unref(cl, cn, exit_text, refs) ==
    LET s0 == [cl |-> cl, conn |-> cn, refs |-> refs, notes |-> << >>,
               torn |-> NoTorn]
        s1 == HandlerRef(s0)
        s2 == HandlerUses(s1, [s1.cl EXCEPT !.is_finished = TRUE])
        s3 == [s2 EXCEPT !.notes = pk_client_finished_cb(cl, exit_text).notes]
        s4 == HandlerUnref(s3, "emit")
        s5 == HandlerUses(s4,
                 [s4.cl EXCEPT !.loop_running = IF s4.cl.synchronous
                                                THEN FALSE ELSE @])
    IN  HandlerUnref(s5, "end")

\* Finished of the transaction the client is bound to, with an observer
\* that drops the caller's reference, the only one, in ::finished
FinishedEventUnref ==
    /\ pc \in {"idle", "loop"}
    /\ c.tid \in Live
    /\ <<c.tid, "Finished">> \in conn
    /\ LET exit_text == IF daemon.txn[c.tid] = "cancelling" THEN "cancelled"
                        ELSE "success"
           r == pk_client_finished_cb_unref(c, conn, exit_text, 1)
       IN  /\ c' = r.cl
           /\ conn' = r.conn
           /\ hist' = [hist EXCEPT !.notes = << >>, !.inbound = << >>,
                                   !.torn = r.torn]
           /\ peer' = PeerAfter(c.tid, "Finished", <<exit_text>>,
                                pk_client_finished_cb(peer.cl, exit_text))
    /\ daemon' = [daemon EXCEPT !.txn[c.tid] = "finished"]
    /\ pc' = IF pc = "loop" THEN "unwinding" ELSE "gone"
    /\ UNCHANGED <<orig, ncalls, last>>

\* ------------------------------------------ a reset from inside ::finished
\* a pk_client_finished_cb that emits ::finished before it sets the flag
FinishedSeenByObserver_unset(cl) == cl

\* the client as the observers of ::finished find it: is_finished is set
\* "before the signal so we can reset"
FinishedSeenByObserver(cl) == [cl EXCEPT !.is_finished = TRUE]

\* pk_client_finished_cb with an observer that calls pk_client_reset; out
\* is the daemon's answer should the reset cancel. After the emission the
\* handler quits the private loop of a synchronous client
pk_client_finished_cb_reset(cl, cn, out) ==
    LET r == pk_client_reset(FinishedSeenByObserver(cl), cn, out)
    IN  [cl |-> [r.cl EXCEPT !.loop_running = IF r.cl.synchronous THEN FALSE
                                              ELSE @],
         conn |-> r.conn, ret |-> r.ret, calls |-> r.calls]

\* the monitor after the observer's reset did r
ObserverReset(r, seen_fin) ==
    [hist EXCEPT !.notes = IF r.ret THEN << >> ELSE @,
                 !.inbound = IF r.ret THEN << >> ELSE @,
                 !.inner = [op |-> "reset", ret |-> r.ret, calls |-> r.calls,
                            fin |-> seen_fin]]

\* Finished of the transaction the client is bound to, with an observer
\* that resets the client in ::finished
FinishedEventReset ==
    /\ pc \in {"idle", "loop"}
    /\ c.tid \in Live
    /\ <<c.tid, "Finished">> \in conn
    /\ \E out \in (IF ResetCancels(FinishedSeenByObserver(c))
                   THEN CancelOuts(c) ELSE {"na"}) :
         /\ c' = pk_client_finished_cb_reset(c, conn, out).cl
         /\ conn' = pk_client_finished_cb_reset(c, conn, out).conn
         /\ hist' = ObserverReset(pk_client_finished_cb_reset(c, conn, out),
                                  FinishedSeenByObserver(c).is_finished)
         /\ daemon' = IF ResetCancels(FinishedSeenByObserver(c))
                      THEN DaemonCancel([daemon EXCEPT !.txn[c.tid] = "finished"],
                                        c.proxy, out)
                      ELSE [daemon EXCEPT !.txn[c.tid] = "finished"]
    /\ peer' = peer
    /\ UNCHANGED <<pc, orig, ncalls, last>>

\* g_main_loop_run returns and with it the action method, to the caller or,
\* when the client went meanwhile, to the handler that dropped it
LoopReturn ==
    /\ pc \in {"loop", "unwinding"}
    /\ ~c.loop_running
    /\ pc' = IF pc = "loop" THEN "done" ELSE "gone"
    /\ last' = [last EXCEPT !.returned = TRUE, !.fin = c.is_finished]
    /\ UNCHANGED <<c, daemon, conn, orig, ncalls, hist, peer>>

\* the caller has looked at the result and is back in its own main loop
Return ==
    /\ pc = "done"
    /\ pc' = "idle"
    /\ last' = NoLast
    /\ UNCHANGED <<c, daemon, conn, orig, ncalls, hist, peer>>

Next ==
    \/ pk_client_get_updates
    \/ pk_client_update_system
    \/ pk_client_search_name
    \/ pk_client_search_details
    \/ pk_client_search_group
    \/ pk_client_search_file
    \/ pk_client_get_depends
    \/ pk_client_get_packages
    \/ pk_client_get_requires
    \/ pk_client_what_provides
    \/ pk_client_get_update_detail
    \/ pk_client_rollback
    \/ pk_client_resolve
    \/ pk_client_get_details
    \/ pk_client_get_files
    \/ pk_client_remove_packages
    \/ pk_client_refresh_cache
    \/ pk_client_install_packages
    \/ pk_client_install_signature
    \/ pk_client_update_packages
    \/ pk_client_install_files
    \/ pk_client_get_repo_list
    \/ pk_client_accept_eula
    \/ pk_client_repo_enable
    \/ pk_client_repo_set_data
    \/ pk_client_get_old_transactions
    \/ pk_client_get_allow_cancel
    \/ pk_client_get_status
    \/ pk_client_get_package
    \/ pk_client_get_progress
    \/ pk_client_get_role
    \/ pk_client_is_caller_active
    \/ Cancel
    \/ Reset
    \/ Requeue
    \/ SetTid
    \/ SetUseBuffer
    \/ SetSynchronous
    \/ Finalize
    \/ PackageEvent
    \/ StatusChangedEvent
    \/ RequireRestartEvent
    \/ UpdateDetailEvent
    \/ FinishedEvent
    \/ LoopReturn
    \/ Return

Spec == Init /\ [][Next]_vars

\* the same client with a monitor attached, driven through three of the
\* action methods: one that spins in synchronous mode, one that takes
\* package ids, one that never spins
InitObs ==
    /\ c = InitClient
    /\ daemon = [next |-> 1, txn |-> [t \in Tids |-> "none"], sent |-> 0,
                 lost |-> "none"]
    /\ conn = {}
    /\ hist = [NoHist EXCEPT !.on = TRUE]
    /\ peer = NoPeer
    /\ pc = "idle"
    /\ orig = NoCall
    /\ ncalls = 0
    /\ last = NoLast

NextObs ==
    \/ pk_client_search_name
    \/ pk_client_install_packages
    \/ pk_client_get_old_transactions
    \/ Cancel
    \/ Reset
    \/ Requeue
    \/ SetUseBuffer
    \/ SetSynchronous
    \/ GetPackageList
    \/ Finalize
    \/ FinalizeBlocked
    \/ FinishedEventUnref
    \/ FinishedEventReset
    \/ PackageEvent
    \/ StatusChangedEvent
    \/ RequireRestartEvent
    \/ UpdateDetailEvent
    \/ FinishedEvent
    \/ LoopReturn
    \/ Return

SpecObs == InitObs /\ [][NextObs]_vars

\* ------------------------------------------------------ the second client
\* the second client made an action call that did r; it is not synchronous,
\* so the call returns at once
PeerCalled(r) ==
    /\ peer' = [peer EXCEPT
                  !.cl = r.cl,
                  !.conn = IF r.bound THEN @ \cup Handlers(r.cl.proxy) ELSE @,
                  !.notes = @ \o Told(r.notes, r.cl.tid, FALSE)]
    /\ daemon' = r.d
    /\ UNCHANGED <<c, conn, pc, orig, ncalls, last, hist>>

\* the caller starts a search on the second client
PeerSearchName ==
    /\ pc = "idle"
    /\ peer.on
    /\ \E filters \in Filters, search \in Searches,
          env \in Envs(peer.cl, daemon, TRUE, "simple") :
         PeerCalled(ActionEffect(peer.cl, daemon, TRUE,
                                 search_name_desc(filters, search).upd,
                                 search_name_desc(filters, search).method,
                                 search_name_desc(filters, search).args,
                                 "simple", TRUE, env))

\* the caller hands the second client a tid: pk_client_get_tid of the first
\* client, or any other
PeerSetTid ==
    /\ pc = "idle"
    /\ peer.on
    /\ \E tid \in Tids :
         /\ peer' = [peer EXCEPT
                       !.cl = pk_client_set_tid(peer.cl, tid).cl,
                       !.conn = IF pk_client_set_tid(peer.cl, tid).bound
                                THEN @ \cup Handlers(tid) ELSE @]
         /\ UNCHANGED <<c, daemon, conn, pc, orig, ncalls, last, hist>>

\* two clients in one process, both watched: the first one as before, the
\* second one searching or following a transaction it was given the tid of
InitPeers ==
    /\ c = InitClient
    /\ daemon = [next |-> 1, txn |-> [t \in Tids |-> "none"], sent |-> 0,
                 lost |-> "none"]
    /\ conn = {}
    /\ hist = [NoHist EXCEPT !.on = TRUE]
    /\ peer = [NoPeer EXCEPT !.on = TRUE]
    /\ pc = "idle"
    /\ orig = NoCall
    /\ ncalls = 0
    /\ last = NoLast

NextPeers ==
    \/ pk_client_search_name
    \/ Cancel
    \/ Reset
    \/ SetSynchronous
    \/ PeerSearchName
    \/ PeerSetTid
    \/ PackageEvent
    \/ StatusChangedEvent
    \/ FinishedEvent
    \/ LoopReturn
    \/ Return

SpecPeers == InitPeers /\ [][NextPeers]_vars

\* =================================================================
\* The properties.  `last` holds the public call that has just returned
\* (pc = "done") or is blocked in its loop (pc = "loop"): its pre-state,
\* the answers it met, its bus calls in order and its result.

\* the action methods of operations that need authorisation
PrivilegedOps ==
    {"install_packages", "install_files", "install_signature",
     "remove_packages", "update_packages", "update_system", "refresh_cache",
     "rollback", "accept_eula", "repo_enable", "repo_set_data"}

\* the action methods that take package ids
PackageIdOps ==
    {"get_depends", "get_requires", "get_details", "get_files",
     "get_update_detail", "install_packages", "remove_packages",
     "update_packages", "install_signature"}

\* the cached arguments of a client
Cached(cl) ==
    <<cl.cached_force, cl.cached_allow_deps, cl.cached_autoremove,
      cl.cached_trusted, cl.cached_package_id, cl.cached_package_ids,
      cl.cached_transaction_id, cl.cached_key_id, cl.cached_full_path,
      cl.cached_full_paths, cl.cached_search, cl.cached_provides,
      cl.cached_filters>>

\* the first dispatch of the call was refused by policy
FirstDenied == last.kind = "action" /\ last.env.out1 = "denied"

\* C1: a privileged action whose first dispatch is policy-denied while the
\* broker grants the privilege dispatches exactly once more, and succeeds
\* if that second dispatch succeeds.
C1_AuthRetryOnce ==
    (FirstDenied /\ last.op \in PrivilegedOps /\ last.env.grant)
        => /\ Len(RoleCalls(last.calls)) = 2
           /\ last.env.out2 = "ok" => last.ret

\* C2: a privileged action whose first dispatch is policy-denied and whose
\* elevation is refused, or whose second dispatch is denied again, fails
\* with FailedAuth carrying the message of the first denial, and dispatches
\* nothing further.
C2_AuthFailureIsFailedAuth ==
    (/\ FirstDenied
     /\ last.op \in PrivilegedOps
     /\ ~last.env.grant \/ last.env.out2 = "denied_again")
        => /\ ~last.ret
           /\ last.err.code = PK_CLIENT_ERROR_FAILED_AUTH
           /\ last.err.msg = FirstDenial
           /\ Len(RoleCalls(last.calls)) = (IF last.env.grant THEN 2 ELSE 1)

\* C3: in synchronous mode an action method whose dispatch succeeded has
\* returned only once Finished was delivered, whichever action it is.
C3_BlockingReturnsAfterFinished ==
    (/\ last.kind = "action"
     /\ last.pre.synchronous
     /\ last.ret
     /\ last.returned)
        => last.fin

\* C4 as the specification states it: any action on a client that has a
\* tid fails with AlreadyTid, dispatches no role method and leaves tid,
\* proxy, role, finished flag and package list as they were.
C4_BoundClientAlreadyBound ==
    (last.kind = "action" /\ last.pre.tid # 0)
        => /\ ~last.ret
           /\ last.err.code = PK_CLIENT_ERROR_ALREADY_TID
           /\ RoleCalls(last.calls) = << >>
           /\ c.tid = last.pre.tid
           /\ c.proxy = last.pre.proxy
           /\ c.role = last.pre.role
           /\ c.is_finished = last.pre.is_finished
           /\ c.package_list = last.pre.package_list

\* C4, amended: any action on a client that has a tid fails, dispatches no
\* role method and leaves the whole client as it was; the error is
\* InvalidPackageId when the package id does not validate, the allocation
\* error when the daemon hands out no tid, and AlreadyTid otherwise.  A
\* tid is given up only by reset or requeue.
C4_BoundClientRefusesAction ==
    /\ (last.kind = "action" /\ last.pre.tid # 0)
        => /\ ~last.ret
           /\ RoleCalls(last.calls) = << >>
           /\ c = last.pre
           /\ orig = last.preOrig
           /\ last.err.code =
                (IF ~last.valid THEN PK_CLIENT_ERROR_INVALID_PACKAGEID
                 ELSE IF last.env.alloc = "fail" THEN PK_CLIENT_ERROR_NO_TID
                 ELSE PK_CLIENT_ERROR_ALREADY_TID)
    /\ (last.kind # "none" /\ last.pre.tid # 0 /\ c.tid # last.pre.tid)
        => last.kind \in {"reset", "requeue"}

\* a search on a bound client was answered with AlreadyTid
C4_Witness ==
    /\ last.op = "search_name"
    /\ last.pre.tid # 0
    /\ last.env.alloc = "ok"
    /\ last.err.code = PK_CLIENT_ERROR_ALREADY_TID
    /\ c.tid = last.pre.tid

\* C5: an action that takes package ids and is given an invalid one fails
\* with InvalidPackageId before any tid is asked for: no bus call is made
\* and the client, its role and cached arguments included, is unchanged.
C5_InvalidPackageIdBeforeTid ==
    (last.kind = "action" /\ ~last.valid)
        => /\ last.op \in PackageIdOps
           /\ ~last.ret
           /\ last.err.code = PK_CLIENT_ERROR_INVALID_PACKAGEID
           /\ last.calls = << >>
           /\ c = last.pre
           /\ orig = last.preOrig

\* install_packages on a fresh client with an invalid id in the list
C5_Witness ==
    /\ last.op = "install_packages"
    /\ ~last.valid
    /\ last.pre.tid = 0
    /\ c.tid = 0
    /\ last.err.code = PK_CLIENT_ERROR_INVALID_PACKAGEID

\* C6: a successful reset leaves no tid, no proxy, an empty package list,
\* restart level none, status unknown, role unknown and finished false.
C6_ResetClearsLifecycle ==
    (last.kind = "reset" /\ last.ret)
        => /\ c.tid = 0
           /\ c.proxy = 0
           /\ c.package_list = << >>
           /\ c.require_restart = PK_RESTART_ENUM_NONE
           /\ c.last_status = PK_STATUS_ENUM_UNKNOWN
           /\ c.role = PK_ROLE_ENUM_UNKNOWN
           /\ ~c.is_finished

\* C7 as the specification states it: reset changes no cached argument.
C7_ResetKeepsCachedRequest ==
    last.kind = "reset" => Cached(c) = Cached(last.pre)

\* C7, amended: a successful reset clears the cached package id(s), key
\* id, transaction id, full path(s) and search text and sets the cached
\* filters to unknown; it leaves the cached force, allow-deps, autoremove
\* and trusted flags and the cached provides kind as they were.  A failed
\* reset changes nothing.
C7_ResetClearsCachedArguments ==
    /\ (last.kind = "reset" /\ last.ret)
        => /\ c.cached_package_id = NULL
           /\ c.cached_package_ids = NULLV
           /\ c.cached_key_id = NULL
           /\ c.cached_transaction_id = NULL
           /\ c.cached_full_path = NULL
           /\ c.cached_full_paths = NULLV
           /\ c.cached_search = NULL
           /\ c.cached_filters = PK_FILTER_ENUM_UNKNOWN
           /\ c.cached_force = last.pre.cached_force
           /\ c.cached_allow_deps = last.pre.cached_allow_deps
           /\ c.cached_autoremove = last.pre.cached_autoremove
           /\ c.cached_trusted = last.pre.cached_trusted
           /\ c.cached_provides = last.pre.cached_provides
    /\ (last.kind = "reset" /\ ~last.ret) => c = last.pre

\* a reset after get_depends: the package id is gone, the flag is still set
C7_Witness ==
    /\ last.kind = "reset"
    /\ last.ret
    /\ last.pre.role = "get-depends"
    /\ last.pre.cached_package_id # NULL
    /\ last.pre.cached_force
    /\ c.cached_package_id = NULL
    /\ c.cached_force

\* C8: reset on a client that has a tid and is not finished first sends
\* Cancel for that transaction; if the cancel fails the reset fails and
\* the client is unchanged.
C8_ResetCancelsFirst ==
    (last.kind = "reset" /\ last.pre.tid # 0 /\ ~last.pre.is_finished)
        => /\ last.calls = <<BusCall("Cancel", last.pre.tid, << >>)>>
           /\ last.env.out1 = "refused"
                => /\ ~last.ret
                   /\ last.err.msg = CancelRefused
           /\ ~last.ret => c = last.pre

\* a reset of a running transaction whose cancel the daemon refused
C8_Witness ==
    /\ last.kind = "reset"
    /\ last.pre.tid # 0
    /\ ~last.pre.is_finished
    /\ last.env.out1 = "refused"
    /\ ~last.ret
    /\ c.tid = last.pre.tid

\* C9: once the transaction is finished, requeue sends the bus method of
\* the original action call, with exactly its arguments, on a fresh tid,
\* whatever the role and the arguments.
C9_RequeueReplaysOriginal ==
    (/\ last.kind = "requeue"
     /\ last.pre.tid # 0
     /\ last.pre.is_finished
     /\ last.env.alloc # "fail")
        => /\ Len(RoleCalls(last.calls)) >= 1
           /\ RoleCalls(last.calls)[1].m = last.preOrig.m
           /\ RoleCalls(last.calls)[1].a = last.preOrig.a
           /\ RoleCalls(last.calls)[1].t # last.pre.tid

\* C10 as the specification states it: requeue on a client whose role is
\* set and whose transaction is not finished fails with RoleUnknown and
\* dispatches nothing.
C10_RequeueUnfinishedRoleUnknown ==
    (/\ last.kind = "requeue"
     /\ last.pre.role # PK_ROLE_ENUM_UNKNOWN
     /\ ~last.pre.is_finished)
        => /\ ~last.ret
           /\ last.err.code = PK_CLIENT_ERROR_ROLE_UNKNOWN
           /\ last.calls = << >>

\* C10, amended: requeue on a client whose role is set and whose
\* transaction is not finished fails with the code Failed ("not finished,
\* so cannot requeue"), makes no bus call and leaves the client unchanged.
C10_RequeueUnfinishedFails ==
    (/\ last.kind = "requeue"
     /\ last.pre.role # PK_ROLE_ENUM_UNKNOWN
     /\ ~last.pre.is_finished)
        => /\ ~last.ret
           /\ last.err.code = PK_CLIENT_ERROR_FAILED
           /\ last.err.msg = "not finished, so cannot requeue"
           /\ last.calls = << >>
           /\ c = last.pre

\* a requeue of a running search
C10_Witness ==
    /\ last.kind = "requeue"
    /\ last.pre.role = "search-name"
    /\ last.pre.tid # 0
    /\ ~last.pre.is_finished
    /\ ~last.ret

\* C11: requeue on a client whose role is unknown (no action was ever
\* issued) fails with RoleUnknown, makes no bus call and leaves the client
\* as it was.
C11_RequeueNoRoleRoleUnknown ==
    (last.kind = "requeue" /\ last.pre.role = PK_ROLE_ENUM_UNKNOWN)
        => /\ ~last.ret
           /\ last.err.code = PK_CLIENT_ERROR_ROLE_UNKNOWN
           /\ last.calls = << >>
           /\ c = last.pre
           /\ orig = last.preOrig

\* a requeue as the first call on a fresh client
C11_Witness ==
    /\ last.kind = "requeue"
    /\ last.pre = InitClient
    /\ ~last.ret
    /\ last.err.code = PK_CLIENT_ERROR_ROLE_UNKNOWN
    /\ c = InitClient

\* C12: cancel on a client that has a tid sends Cancel on its proxy; it
\* returns TRUE with no error when the call succeeds or the daemon answers
\* that the transaction is not running or does not exist, and for any other
\* remote error it returns FALSE with that error, its message kept.
C12_CancelAbsorbsAlreadyOver ==
    (last.kind = "cancel" /\ last.pre.tid # 0)
        => /\ last.calls = <<BusCall("Cancel", last.pre.proxy, << >>)>>
           /\ last.env.out1 \in {"ok", "notrunning", "noexist"}
                => last.ret /\ last.err = NoError
           /\ last.env.out1 = "refused"
                => /\ ~last.ret
                   /\ last.err.code = PK_CLIENT_ERROR_FAILED
                   /\ last.err.msg = CancelRefused

\* a cancel of a finished transaction, answered "not running"
C12_Witness ==
    /\ last.kind = "cancel"
    /\ last.pre.tid # 0
    /\ last.pre.is_finished
    /\ last.env.out1 = "notrunning"
    /\ last.ret
    /\ last.err = NoError

\* C13: cancel on a client that has no tid returns TRUE with no error and
\* makes no bus call, however the client came to have no tid.
C13_CancelUnboundNoBusCall ==
    (last.kind = "cancel" /\ last.pre.tid = 0)
        => /\ last.ret
           /\ last.err = NoError
           /\ last.calls = << >>

\* ------------------------------------------- a caller with no error slot
\* pk_warning ("failed to get a TID: %s", (*error)->message) and
\* pk_warning ("failed to set TID: %s", (*error)->message): both failure
\* branches of pk_client_allocate_transaction_id read the error through the
\* caller's slot
AllocateWarns(cl, d, alloc) == ~pk_client_allocate_transaction_id(cl, d, alloc).ret

\* an action method called with error = NULL did r. reads: it read through
\* the slot; crashed: what the build made of that read. The caller gets ret
\* and no error.
CalledNullError(r, reads, crashed, op, valid, env) ==
    Commit(r.cl, r.d,
           IF r.bound THEN conn \cup Handlers(r.cl.proxy) ELSE conn,
           IF crashed THEN "crashed"
           ELSE IF r.cl.loop_running THEN "loop" ELSE "done",
           IF r.bound THEN r.call ELSE orig,
           [op |-> op, kind |-> "action_null", valid |-> valid,
            ret |-> r.ret, err |-> NoError, calls |-> r.calls, env |-> env,
            pre |-> c, preOrig |-> orig,
            returned |-> ~crashed /\ ~r.cl.loop_running,
            fin |-> r.cl.is_finished, reads |-> reads],
           hist)

\* the caller invokes an action method with error = NULL. Reading through
\* a null pointer is undefined: the process stops there, or goes on
ActionNullError(op, d) ==
    /\ CallerReady
    /\ \E env \in Envs(c, daemon, d.valid, d.kind) :
         \E crashed \in {FALSE, d.valid /\ AllocateWarns(c, daemon, env.alloc)} :
            CalledNullError(ActionEffect(c, daemon, d.valid, d.upd, d.method,
                                         d.args, d.kind, d.spins, env),
                            d.valid /\ AllocateWarns(c, daemon, env.alloc),
                            crashed, op, d.valid, env)

\* pk_client_search_name (client, filters, search, NULL)
SearchNameNullError ==
    \E filters \in Filters, search \in Searches :
        ActionNullError("search_name", search_name_desc(filters, search))

\* pk_client_install_packages (client, package_ids, NULL)
InstallPackagesNullError ==
    \E package_ids \in PackageIdLists :
        ActionNullError("install_packages", install_packages_desc(package_ids))

NextNullError ==
    \/ SearchNameNullError
    \/ InstallPackagesNullError
    \/ Cancel
    \/ Reset
    \/ SetSynchronous
    \/ PackageEvent
    \/ FinishedEvent
    \/ LoopReturn
    \/ Return

SpecNullError == Init /\ [][NextNullError]_vars

\* ------------------------------------- Finished before the loop is running
\* g_main_loop_run: the loop is marked running on entry, whatever a
\* g_main_loop_quit before that did, and runs until the next quit
g_main_loop_run(cl) == [cl EXCEPT !.loop_running = TRUE]

\* a synchronous action method did r and is about to spin; an observer of
\* the status-changed (wait) it emits iterates the main context, and
\* Finished of the new transaction is dispatched there:
\* pk_client_finished_cb runs on the client whose loop is not running yet,
\* then the method enters g_main_loop_run
FinishedInWait(r) ==
    LET f == pk_client_finished_cb([r.cl EXCEPT !.loop_running = FALSE],
                                   "success")
    IN  [r EXCEPT !.cl = g_main_loop_run(f.cl),
                  !.d = [r.d EXCEPT !.txn[r.cl.tid] = "finished"],
                  !.notes = @ \o f.notes]

\* pk_client_search_name on a synchronous client, with such an observer
SearchNameFinishedInWait ==
    /\ CallerReady
    /\ \E filters \in Filters, search \in Searches,
          env \in Envs(c, daemon, TRUE, "simple") :
         /\ ActionEffect(c, daemon, TRUE,
                         search_name_desc(filters, search).upd,
                         search_name_desc(filters, search).method,
                         search_name_desc(filters, search).args,
                         "simple", TRUE, env).cl.loop_running
         /\ Called(FinishedInWait(
                      ActionEffect(c, daemon, TRUE,
                                   search_name_desc(filters, search).upd,
                                   search_name_desc(filters, search).method,
                                   search_name_desc(filters, search).args,
                                   "simple", TRUE, env)),
                   "search_name", "action", TRUE, env, hist)

NextLive ==
    \/ pk_client_search_name
    \/ SearchNameFinishedInWait
    \/ SetSynchronous
    \/ Reset
    \/ PackageEvent
    \/ FinishedEvent
    \/ LoopReturn
    \/ Return

\* the daemon ends every transaction it started, and a call whose loop was
\* quit returns
SpecLive ==
    /\ Init
    /\ [][NextLive]_vars
    /\ WF_vars(FinishedEvent)
    /\ WF_vars(LoopReturn)

\* -----------------------------------------------------------------
\* The properties of the signals, checked with a monitor attached (SpecObs).

\* the notes that relay a signal of the bus
BusNotes == SelectSeq(hist.notes, LAMBDA n : n.bus)

\* the note the observers are due for one signal of the bus
Relayed(ev) ==
    [sig |-> CASE ev.sig = "Package" -> "package"
               [] ev.sig = "StatusChanged" -> "status-changed"
               [] ev.sig = "RequireRestart" -> "require-restart"
               [] ev.sig = "UpdateDetail" -> "update-detail"
               [] ev.sig = "Finished" -> "finished",
     args |-> CASE ev.sig = "Package" ->
                     <<pk_info_enum_from_text(ev.args[1]), ev.args[2],
                       ev.args[3]>>
               [] ev.sig = "StatusChanged" ->
                     <<pk_status_enum_from_text(ev.args[1])>>
               [] ev.sig = "RequireRestart" ->
                     <<pk_restart_enum_from_text(ev.args[1])>>
               [] ev.sig = "UpdateDetail" -> ev.args
               [] ev.sig = "Finished" -> <<pk_exit_enum_from_text(ev.args[1])>>,
     t |-> ev.t, bus |-> TRUE]

\* the Package signals received, and the records they stand for
PackagesIn == SelectSeq(hist.inbound, LAMBDA ev : ev.sig = "Package")

PackageRecords == [i \in 1..Len(PackagesIn) |-> Relayed(PackagesIn[i]).args]

\* C14: a cancel leaves the client as it was (tid, proxy, role, finished
\* flag, package list); a transaction that was asked to stop keeps every
\* handler of the client it is bound to, so what it still emits is
\* delivered; and the finished flag of a live client is set only if
\* Finished of the bound transaction was delivered.
C14_CancelDoesNotComplete ==
    /\ last.kind = "cancel" => c = last.pre /\ orig = last.preOrig
    /\ \A t \in Tids :
         (daemon.txn[t] = "cancelling" /\ c.proxy = t) => Handlers(t) \subseteq conn
    /\ (c.is_finished /\ pc \notin {"unwinding", "gone"})
         => \E i \in DOMAIN hist.notes :
               /\ hist.notes[i].sig = "finished"
               /\ hist.notes[i].bus
               /\ hist.notes[i].t = c.tid

\* after an accepted cancel a Package and then Finished (cancelled) arrived
\* and were both passed on
C14_Witness ==
    /\ c.is_finished
    /\ Len(hist.notes) >= 3
    /\ hist.notes[Len(hist.notes)].sig = "finished"
    /\ hist.notes[Len(hist.notes)].args = <<PK_EXIT_ENUM_CANCELLED>>
    /\ hist.notes[Len(hist.notes) - 1].sig = "package"

\* C15: for every transaction Finished is the last thing the observers are
\* told about it, the locally made "wait" status included, and they are
\* told Finished at most once.
C15_FinishedIsLast ==
    \A i, j \in DOMAIN hist.notes :
        (hist.notes[i].sig = "finished" /\ hist.notes[j].t = hist.notes[i].t)
            => j <= i

\* wait (made by the action call), a package, then Finished
C15_Witness ==
    /\ Len(hist.notes) = 3
    /\ hist.notes[1].sig = "status-changed"
    /\ ~hist.notes[1].bus
    /\ hist.notes[1].args = <<PK_STATUS_ENUM_WAIT>>
    /\ hist.notes[2].sig = "package"
    /\ hist.notes[3].sig = "finished"
    /\ hist.notes[3].t = hist.notes[1].t

\* C16: the observers are told of the signals of the bus in the order of
\* arrival, one note for every signal, none held back: at every moment the
\* relayed notes are exactly the signals received so far, converted.
C16_NotesFollowSignals ==
    /\ Len(BusNotes) = Len(hist.inbound)
    /\ \A i \in DOMAIN hist.inbound : BusNotes[i] = Relayed(hist.inbound[i])

\* two different packages, with buffering on, passed on in their order
C16_Witness ==
    /\ c.use_buffer
    /\ Len(hist.inbound) = 2
    /\ hist.inbound[1].sig = "Package"
    /\ hist.inbound[2].sig = "Package"
    /\ hist.inbound[1].args[1] = "available"
    /\ hist.inbound[2].args[1] = "installed"
    /\ BusNotes[1].args[1] = PK_INFO_ENUM_AVAILABLE
    /\ BusNotes[2].args[1] = PK_INFO_ENUM_INSTALLED

\* C17: once a reset went through or the client is finalized, nothing the
\* old transaction still emits reaches the client: while the client has no
\* proxy no signal was handed to its handlers, its observers were told
\* nothing, and a client that was reset stays as the reset left it.
C17_NoSignalsAfterUnbind ==
    /\ c.proxy = 0 => hist.notes = << >> /\ hist.inbound = << >>
    /\ (c.proxy = 0 /\ pc \notin {"unwinding", "gone"})
         => /\ ~c.is_finished
            /\ c.package_list = << >>
            /\ c.last_status = PK_STATUS_ENUM_UNKNOWN

\* a reset of a running transaction; the daemon then emitted UpdateDetail,
\* whose handler was not taken off by name, and nobody heard it
C17_Witness ==
    /\ pc = "idle"
    /\ c.proxy = 0
    /\ daemon.lost = "UpdateDetail"
    /\ hist.notes = << >>
    /\ c.last_status = PK_STATUS_ENUM_UNKNOWN

\* the worst of a set of restarts
MaxRestart(S) == CHOOSE m \in S : \A x \in S : x <= m

\* C18: the restart pk_client_get_require_restart returns is the worst of
\* the RequireRestart signals received so far, in whatever order they came.
C18_RestartIsMaximum ==
    pk_client_get_require_restart(c) =
        MaxRestart({pk_restart_enum_from_text(x) : x \in hist.restarts}
                   \cup {PK_RESTART_ENUM_NONE})

\* system first, then session: the answer stays system
C18_Witness ==
    /\ Len(hist.inbound) = 2
    /\ hist.inbound[1].sig = "RequireRestart"
    /\ hist.inbound[1].args = <<"system">>
    /\ hist.inbound[2].sig = "RequireRestart"
    /\ hist.inbound[2].args = <<"session">>
    /\ pk_client_get_require_restart(c) = pk_restart_enum_from_text("system")

\* C19: when every Package signal of the transaction arrived with the
\* buffer or the synchronous mode on, pk_client_get_package_list returns
\* the list of exactly these packages, in the order of arrival.
C19_AccessorReturnsPackages ==
    (PackagesIn # << >> /\ \A i \in DOMAIN PackagesIn : PackagesIn[i].mode)
        => /\ pk_client_get_package_list(c).list # NULL
           /\ pk_client_get_package_list(c).items = PackageRecords

\* C20: without use_buffer pk_client_get_package_list returns no list,
\* whatever happened before, and every Package signal was still passed on
\* to the observers.
C20_NoBufferNoList ==
    ~c.use_buffer
        => /\ pk_client_get_package_list(c).list = NULL
           /\ pk_client_get_package_list(c).items = << >>
           /\ SelectSeq(BusNotes, LAMBDA n : n.sig = "package")
                = [i \in 1..Len(PackagesIn) |-> Relayed(PackagesIn[i])]

\* two packages went to the observers of a synchronous client that never
\* set use_buffer: they are in its own list, the accessor returns none
C20_Witness ==
    /\ ~c.use_buffer
    /\ c.synchronous
    /\ Len(PackagesIn) = 2
    /\ Len(c.package_list) = 2
    /\ pk_client_get_package_list(c).list = NULL

\* -----------------------------------------------------------------
\* C21: the package list the accessor returned is a snapshot: what the
\* caller reads through the pointer it holds is what was in the list when
\* the accessor returned, whatever Package signals, resets or requeues came
\* after.
C21_HeldListIsSnapshot ==
    hist.got.list # NULL => ListItems(hist.got.list) = hist.got.items

\* the Package signals that arrived with the buffer or the synchronous mode
\* on
Buffered == SelectSeq(PackagesIn, LAMBDA ev : ev.mode)

\* C22: the buffer holds the packages of the current transaction only: at
\* every moment it is the list of the Package signals received, in a mode
\* that stores them, since the last reset or requeue, and these are signals
\* of the transaction the client is bound to now; its size at Finished is
\* the number of these signals, whatever the transactions before it emitted.
C22_BufferHoldsCurrentTransaction ==
    pc \notin {"gone", "unwinding"}
        => /\ c.package_list =
                [i \in 1..Len(Buffered) |-> Relayed(Buffered[i]).args]
           /\ \A i \in DOMAIN hist.inbound :
                c.tid # 0 => hist.inbound[i].t = c.tid

\* the second transaction of a buffering client, started by a requeue, has
\* finished with one package, and the buffer holds this one package
C22_Witness ==
    /\ c.use_buffer
    /\ c.tid = 2
    /\ c.is_finished
    /\ Len(PackagesIn) = 1
    /\ PackagesIn[1].t = 2
    /\ Len(c.package_list) = 1

\* -----------------------------------------------------------------
\* C23: pk_client_set_tid on a client that has a tid returns FALSE with
\* the error AlreadyTid and changes nothing: the client keeps its tid and
\* its proxy, no handler is added or taken off, the daemon is not called.
C23_SecondTidRefused ==
    [][(pc = "idle" /\ last'.kind = "set_tid" /\ c.tid # 0)
          => /\ ~last'.ret
             /\ last'.err.code = PK_CLIENT_ERROR_ALREADY_TID
             /\ last'.calls = << >>
             /\ c' = c
             /\ conn' = conn
             /\ daemon' = daemon]_vars

\* a client bound to transaction 1 by a search was handed a tid again and
\* refused it; its sixteen handlers are on the proxy of 1
C23_Witness ==
    /\ last.kind = "set_tid"
    /\ last.pre.tid = 1
    /\ last.pre.role = "search-name"
    /\ ~last.ret
    /\ last.err.code = PK_CLIENT_ERROR_ALREADY_TID
    /\ c = last.pre
    /\ Handlers(1) \subseteq conn

\* -----------------------------------------------------------------
\* C24: an action call whose request for a transaction id fails returns
\* FALSE with the error NoTid after the one GetTid call: no role method is
\* sent, and the client is as before the call (no tid, no proxy, the role
\* and the cached arguments it had), and so is the call a requeue replays.
C24_AllocationFailureLeavesIdle ==
    (last.kind = "action" /\ last.env.alloc = "fail")
        => /\ ~last.ret
           /\ last.err.code = PK_CLIENT_ERROR_NO_TID
           /\ last.calls = <<BusCall("GetTid", 0, << >>)>>
           /\ RoleCalls(last.calls) = << >>
           /\ c = last.pre
           /\ orig = last.preOrig
           /\ last.pre.tid = 0 => c.tid = 0 /\ c.proxy = last.pre.proxy

\* a search on a fresh client met a daemon that hands out no tid
C24_Witness ==
    /\ last.op = "search_name"
    /\ last.env.alloc = "fail"
    /\ last.pre = InitClient
    /\ ~last.ret
    /\ last.err.code = PK_CLIENT_ERROR_NO_TID
    /\ c = InitClient
    /\ conn = {}

\* -----------------------------------------------------------------
\* C25: an error a public call hands to its caller that began as a remote
\* exception of the bus has the local code Failed (or was replaced by a
\* FailedAuth error) and still has the message the daemon sent.
C25_RemoteErrorsAreFailed ==
    (pc = "done" /\ last.err.domain = "DBUS_GERROR")
        => /\ last.err.code = PK_CLIENT_ERROR_FAILED
           /\ last.err.msg \in {RemoteMessage, FirstDenial, SecondDenial,
                                CancelRefused}

\* -----------------------------------------------------------------
\* C26: a public call that returns FALSE leaves an error in the slot the
\* caller supplied; the cancel failures that are absorbed return TRUE.
C26_FailureCarriesError ==
    /\ (pc = "done" /\ ~last.ret) => last.err # NoError
    /\ (pc = "done" /\ last.kind = "cancel"
          /\ last.env.out1 \in {"notrunning", "noexist"}) => last.ret

\* -----------------------------------------------------------------
\* The properties of two clients in one process (SpecPeers).

\* the notes of the second client that relay a signal of the bus
PeerBusNotes == SelectSeq(peer.notes, LAMBDA n : n.bus)

\* C27: while the first client is blocked in a synchronous action call,
\* every signal the transaction of the second client emits is handed to
\* the second client and its observers are told, Finished included, which
\* sets the finished flag of the second client.
C27_OthersServedWhileBlocked ==
    [][(pc = "loop" /\ Len(peer'.emitted) = Len(peer.emitted) + 1)
          => /\ Len(peer'.notes) = Len(peer.notes) + 1
             /\ peer'.notes[Len(peer'.notes)] =
                    Relayed(peer'.emitted[Len(peer'.emitted)])
             /\ peer'.emitted[Len(peer'.emitted)].sig = "Finished"
                    => peer'.cl.is_finished]_vars

\* the first client is still blocked in its search on transaction 2; the
\* search of the second client, transaction 1, emitted a package and
\* Finished meanwhile, and the second client's observers were told both
C27_Witness ==
    /\ pc = "loop"
    /\ c.loop_running
    /\ c.tid = 2
    /\ peer.cl.tid = 1
    /\ peer.cl.is_finished
    /\ peer.inloop = 2
    /\ Len(peer.notes) = 3
    /\ peer.notes[2].sig = "package"
    /\ peer.notes[3].sig = "finished"

\* -----------------------------------------------------------------
\* C28: when a synchronous client is finalized while an action call on it
\* is blocked, pk_client_finalize tells the private loop to quit, so
\* g_main_loop_run returns and the blocked call with it; the handlers are
\* off the proxy by then.
C28_FinalizeQuitsLoop ==
    pc = "unwinding"
        => /\ c.synchronous
           /\ ~c.loop_running
           /\ c.proxy = 0
           /\ \A h \in conn : h[1] # c.tid

\* a blocked search has returned although its transaction never finished:
\* the client was finalized inside the loop
C28_Witness ==
    /\ pc = "gone"
    /\ last.kind = "action"
    /\ last.op = "search_name"
    /\ last.ret
    /\ last.returned
    /\ ~last.fin
    /\ c.synchronous
    /\ ~c.loop_running

\* -----------------------------------------------------------------
\* the role each action method saves on the client once its transaction
\* is allocated
OpRole ==
    [get_updates |-> "get-updates", update_system |-> "update-system",
     search_name |-> "search-name", search_details |-> "search-details",
     search_group |-> "search-group", search_file |-> "search-file",
     get_depends |-> "get-depends", get_packages |-> "get-packages",
     get_requires |-> "get-requires", what_provides |-> "what-provides",
     get_update_detail |-> "get-update-detail", rollback |-> "rollback",
     resolve |-> "resolve", get_details |-> "get-details",
     get_files |-> "get-files", remove_packages |-> "remove-packages",
     refresh_cache |-> "refresh-cache",
     install_packages |-> "install-packages",
     install_signature |-> "install-signature",
     update_packages |-> "update-packages",
     install_files |-> "install-files", get_repo_list |-> "get-repo-list",
     accept_eula |-> "accept-eula", repo_enable |-> "repo-enable",
     repo_set_data |-> "repo-set-data"]

\* C29: the role is unknown as long as no action was sent; when an action
\* call has succeeded the role of the client is the role of that action
\* (a known role, for every action method); and a public call that leaves
\* the client bound to the transaction it was bound to leaves the role as
\* it was.
C29_RoleFollowsAction ==
    /\ orig = NoCall => c.role = PK_ROLE_ENUM_UNKNOWN
    /\ (last.kind = "action" /\ last.ret)
          => /\ c.role # PK_ROLE_ENUM_UNKNOWN
             /\ last.op \in DOMAIN OpRole => c.role = OpRole[last.op]
    /\ (last.kind # "none" /\ last.pre.tid # 0 /\ c.tid = last.pre.tid)
          => c.role = last.pre.role

\* -----------------------------------------------------------------
\* the packages the observers of the first client were told of, for the
\* transaction t, and those the observers of the second client were told of
PackagesTold(t) ==
    SelectSeq(hist.notes, LAMBDA n : n.bus /\ n.t = t /\ n.sig = "package")

PeerPackagesTold ==
    SelectSeq(peer.notes, LAMBDA n : n.bus /\ n.sig = "package")

IsSuffix(s, w) ==
    /\ Len(s) <= Len(w)
    /\ \A i \in 1..Len(s) : s[i] = w[Len(w) - Len(s) + i]

\* C30: a second client bound to a transaction hears every signal the
\* transaction emits from then on, one note to its observers for each, in
\* the order of the bus; and while the first client is on the same
\* transaction the packages the second client's observers were told of are
\* the last ones the first client's observers were told of, same records,
\* same order, same number.
C30_BoundClientHearsTheSame ==
    /\ PeerBusNotes =
          [i \in 1..Len(peer.emitted) |-> Relayed(peer.emitted[i])]
    /\ (c.tid # 0 /\ peer.cl.tid = c.tid)
          => IsSuffix(PeerPackagesTold, PackagesTold(c.tid))

\* the first client searched, transaction 1, and its observers were told of
\* one package; then the second client was given the tid with
\* pk_client_set_tid (it has a proxy and no role), a second package came,
\* and the observers of both clients were told of it
C30_Witness ==
    /\ c.tid = 1
    /\ c.role = "search-name"
    /\ peer.cl.tid = 1
    /\ peer.cl.proxy = 1
    /\ peer.cl.role = PK_ROLE_ENUM_UNKNOWN
    /\ Len(PackagesTold(1)) = 2
    /\ Len(PeerPackagesTold) = 1
    /\ PeerPackagesTold[1] = PackagesTold(1)[2]

\* -----------------------------------------------------------------
\* C31: when an observer of ::finished drops the last outside reference,
\* the client is finalised only at the unref that closes
\* pk_client_finished_cb: the finished flag was set and the observers told
\* before, the handler used no field of the client after, the private loop
\* was told to quit, and a synchronous action call that was blocked
\* returns TRUE.
C31_FinishedHandlerHoldsClient ==
    hist.torn.at # "none"
       => /\ hist.torn.at = "end"
          /\ hist.torn.flag
          /\ hist.torn.told
          /\ ~hist.torn.uaf
          /\ ~c.loop_running
          /\ pc \in {"unwinding", "gone"}
          /\ last.kind = "action" => last.ret
          /\ (last.kind = "action" /\ pc = "gone") => last.returned

\* a synchronous search was blocked, Finished came, the observer dropped
\* the client, and the search returned TRUE to the caller
C31_Witness ==
    /\ hist.torn.at = "end"
    /\ pc = "gone"
    /\ last.op = "search_name"
    /\ last.kind = "action"
    /\ last.ret
    /\ last.returned
    /\ c.synchronous
    /\ c.is_finished

\* -----------------------------------------------------------------
\* C32: an action method called with error = NULL never reads through the
\* absent slot, whatever makes it fail: the process does not stop in the
\* call and a call that failed returned FALSE without such a read.
C32_NullErrorSlotIsSafe ==
    /\ pc # "crashed"
    /\ last.kind = "action_null" => ~last.reads

\* -----------------------------------------------------------------
\* the calls a public call made after it had its tid
AfterTid(calls) == SelectSeq(calls, LAMBDA x : x.m # "GetTid")

\* C33: one action call (a requeue replaying one included) dispatches its
\* role method at most twice and asks the broker at most once; the broker
\* is asked only after a first dispatch that was refused by policy, with
\* the message of that refusal, and the second dispatch, the same call
\* again, is made only when the broker granted.
C33_RetryIsBounded ==
    last.kind \in {"action", "requeue"}
       => /\ Len(RoleCalls(last.calls)) <= 2
          /\ Len(BrokerCalls(last.calls)) <= 1
          /\ BrokerCalls(last.calls) # << >>
                => /\ last.env.out1 = "denied"
                   /\ Len(AfterTid(last.calls)) >= 2
                   /\ AfterTid(last.calls)[2].m = "GainPrivilege"
                   /\ AfterTid(last.calls)[2].a = <<FirstDenial>>
          /\ Len(RoleCalls(last.calls)) = 2
                => /\ last.env.grant
                   /\ Len(AfterTid(last.calls)) = 3
                   /\ AfterTid(last.calls)[3] = AfterTid(last.calls)[1]

\* the install was refused, the broker granted, the second InstallPackages
\* was refused again: the call gave up after two dispatches and one request
C33_Witness ==
    /\ last.kind = "action"
    /\ last.op = "install_packages"
    /\ last.env.out1 = "denied"
    /\ last.env.grant
    /\ last.env.out2 = "denied_again"
    /\ ~last.ret
    /\ Len(RoleCalls(last.calls)) = 2
    /\ Len(BrokerCalls(last.calls)) = 1

\* -----------------------------------------------------------------
\* C34: an observer of ::finished finds the finished flag set, so a
\* pk_client_reset it calls from there makes no bus call, no Cancel in
\* particular, and returns TRUE.
C34_ResetInFinishedDoesNotCancel ==
    hist.inner.op = "reset"
       => /\ hist.inner.fin
          /\ hist.inner.calls = << >>
          /\ hist.inner.ret

\* a synchronous search was blocked; Finished came, the observer reset the
\* client without a Cancel, and the search returned TRUE on a client that
\* is unbound again
C34_Witness ==
    /\ hist.inner.op = "reset"
    /\ hist.inner.ret
    /\ pc = "done"
    /\ last.op = "search_name"
    /\ last.pre.synchronous
    /\ last.ret
    /\ c.tid = 0
    /\ c.proxy = 0
    /\ ~c.is_finished

\* -----------------------------------------------------------------
\* the transactions the client has handlers on
BoundChannels == {h[1] : h \in conn}

\* C35: the handlers of the client hang on the signals of at most one
\* transaction, and after a requeue that went through they hang on the new
\* transaction only, the old one's being off as after a reset.
C35_OneChannelBound ==
    /\ Cardinality(BoundChannels) <= 1
    /\ (last.kind = "requeue" /\ last.ret) => BoundChannels = {c.tid}

\* -----------------------------------------------------------------
\* C36: a synchronous action call whose transaction has said Finished,
\* at whatever point after the dispatch, returns in the end.
C36_NoLostWakeup ==
    (pc = "loop" /\ c.is_finished) ~> (pc # "loop")

\* -----------------------------------------------------------------
\* C37: between two public calls the client has a tid exactly when it has
\* a proxy, so pk_client_cancel, which tests the proxy, and pk_client_reset
\* and the action methods, which test the tid, take the same clients for
\* bound.
C37_TidIffProxy ==
    pc \in {"idle", "done"} => ((c.tid = 0) <=> (c.proxy = 0))

\* -----------------------------------------------------------------
\* C38: a pk_client_requeue that returned FALSE, whatever stopped it, left
\* the tid, the finished flag, the last status and the package list of the
\* client as they were.
C38_FailedRequeueChangesNothing ==
    (pc = "done" /\ last.kind = "requeue" /\ ~last.ret)
       => /\ c.tid = last.pre.tid
          /\ c.is_finished = last.pre.is_finished
          /\ c.last_status = last.pre.last_status
          /\ c.package_list = last.pre.package_list

\* -----------------------------------------------------------------
\* the client cl is bound to a transaction the daemon allocated and never
\* started, and has not been told Finished
Unstarted(cl) ==
    cl.tid # 0 /\ ~cl.is_finished /\ daemon.txn[cl.tid] = "none"

\* an action method got its tid and its dispatch failed
DispatchFailed ==
    /\ last.kind = "action"
    /\ last.pre.tid = 0
    /\ ~last.ret
    /\ RoleCalls(last.calls) # << >>

\* C39 as the specification states it: after a dispatch that failed the
\* client is bound to the allocated tid and not finished; from then on
\* every action call fails with AlreadyTid, and a reset first sends Cancel
\* for the transaction.
C39_FailedDispatchAlreadyBound ==
    /\ DispatchFailed
          => /\ Unstarted(c)
             /\ c.proxy = c.tid
    /\ (last.kind = "action" /\ Unstarted(last.pre))
          => /\ ~last.ret
             /\ last.err.code = PK_CLIENT_ERROR_ALREADY_TID
    /\ (last.kind = "reset" /\ Unstarted(last.pre))
          => /\ last.calls # << >>
             /\ last.calls[1] = BusCall("Cancel", last.pre.proxy, << >>)
             /\ last.ret => c.tid = 0

\* C39, amended: after a dispatch that failed the client is bound to the
\* allocated tid and not finished; from then on every action call fails
\* and dispatches nothing, with InvalidPackageId when the package id does
\* not validate, the allocation error when the daemon hands out no tid and
\* AlreadyTid otherwise; the client leaves the transaction only by a reset
\* that succeeded, and a reset first sends Cancel for the transaction.
C39_FailedDispatchStaysBound ==
    /\ DispatchFailed
          => /\ Unstarted(c)
             /\ c.proxy = c.tid
    /\ (last.kind = "action" /\ Unstarted(last.pre))
          => /\ ~last.ret
             /\ RoleCalls(last.calls) = << >>
             /\ c = last.pre
             /\ last.err.code =
                  (IF ~last.valid THEN PK_CLIENT_ERROR_INVALID_PACKAGEID
                   ELSE IF last.env.alloc = "fail" THEN PK_CLIENT_ERROR_NO_TID
                   ELSE PK_CLIENT_ERROR_ALREADY_TID)
    /\ (last.kind # "none" /\ Unstarted(last.pre) /\ c.tid # last.pre.tid)
          => last.kind = "reset" /\ last.ret
    /\ (last.kind = "reset" /\ Unstarted(last.pre))
          => /\ last.calls # << >>
             /\ last.calls[1] = BusCall("Cancel", last.pre.proxy, << >>)
             /\ last.ret => c.tid = 0

\* a search was refused by the daemon after it had its tid; the reset that
\* followed sent Cancel for that transaction and unbound the client
C39_Witness ==
    /\ last.kind = "reset"
    /\ last.ret
    /\ Unstarted(last.pre)
    /\ last.pre.role = "search-name"
    /\ last.calls[1].m = "Cancel"
    /\ c.tid = 0
    /\ c.proxy = 0

\* -----------------------------------------------------------------
\* C40: an action method called on a client that has a tid makes no bus
\* call: it asks the daemon for no new tid, so the daemon allocates no
\* transaction that nobody will use.
C40_BoundActionAllocatesNothing ==
    (last.kind = "action" /\ last.pre.tid # 0) => last.calls = << >>

====
